---------------------------- MODULE Spec2Model ----------------------------
(***************************************************************************)
(* A model of the NXP SJA1110 control tool: the CRC repair tool            *)
(* (tools/fix_crc.py), the firmware builder and its validator              *)
(* (src/sja1110_firmware_builder.py), the serial flash protocol and the    *)
(* transport handles of the CLI (sja1110_cli.py, src/sja1110_driver.py),   *)
(* the image verifiers (verify_firmware.py,                                *)
(* src/sja1110_correct_firmware.py) and the upload tool                    *)
(* (sja1110_upload.py).                                                    *)
(*                                                                         *)
(* Bytes are integers 0..255, byte strings are sequences of bytes, text is *)
(* a sequence of one-character strings.  A 32-bit word is a pair           *)
(* <<hi, lo>> of 16-bit halves, because the model checker's integers are   *)
(* signed 32-bit numbers.                                                  *)
(***************************************************************************)
EXTENDS Integers, Sequences, FiniteSets, TLC

VARIABLES
    \* tools/fix_crc.py: one file on disk and the last call of fix_crc on it
    fcFile,       \* the bytes of the file at `path`
    fcPrev,       \* the bytes of the file when the last call started
    fcWrote,      \* whether the last call executed path.write_bytes
    fcOutcome,    \* "none", "returned" or "ValueError": how the last call ended
    fcRun,        \* calls of fix_crc since the file was last edited by hand
    fcWrites,     \* path.write_bytes calls since the file was last edited by hand
    \* src/sja1110_firmware_builder.py: one SJA1110FirmwareBuilder
    bSections,    \* self.config_sections: section id -> section bytes
    bFile,        \* the bytes of the file build_firmware wrote (<<>>: none yet)
    bBuilt,       \* whether build_firmware has written the file
    bValid,       \* "none", "True", "False": validate_firmware on that file
    \* sja1110_cli.py: one call of SJA1110CLI.flash_firmware on a serial port
    flPc,         \* where flash_firmware is: "idle", "bootloader", "flash",
                  \* "download", "completion", "reboot", "done" or "failed"
    flError,      \* the message of the exception raised ("none": none)
    flFile,       \* the bytes of firmware_file
    flTx,         \* every self.serial.write so far, in order
    flRx,         \* the bytes waiting in the port's input buffer (in_waiting)
    flDev,        \* the bytes the device has yet to put on the line
    flBursts,     \* in how many pieces the device's pending output came so far
    flResp,       \* the local variable `response` of the running loop, as text
    flFlashResp,  \* what send_command('flash <size>') returned, as text
    flSent,       \* total_sent: the file position of the download loop
    flHeard,      \* the bytes read by the completion loop so far
    \* one run of main() of sja1110_cli.py or of sja1110_upload.py
    runTool,      \* "cli" or "upload" ("none": no run)
    runInterface, \* args.interface
    runArgs,      \* the rest of the command line
    runPc,        \* "start", "try", "finally" or "exited" ("idle": no run)
    runStep,      \* steps of the try body done so far
    runAttrs,     \* the attributes set on the tool's object and on its driver
    runOpen,      \* the transport handles that are open
    runOpened,    \* the transport handles that were opened during the run
    runPending,   \* whether an exception is on its way out of the try body
    runExit,      \* how main() ended: "none", "returned", "exception", "exit 1"
    \* verify_firmware.py, src/sja1110_correct_firmware.py and
    \* SJA1110Uploader.upload_switch_config of sja1110_upload.py, on two
    \* image files
    imUc,         \* the bytes of the microcontroller image
    imSwitch,     \* the bytes of the switch configuration image
    imUcOk,       \* "none", "True", "False": verify_uc_firmware on imUc
    imSwitchOk,   \* "none", "True", "False": verify_switch_config on imSwitch
    imPairOk,     \* "none", "True", "False": validate_firmware on the two
    upInterface,  \* the uploader's interface
    upData,       \* config_data as upload_switch_config hands it on
    upFile,       \* what was written to the file in /lib/firmware (sysfs)
    upTrigger,    \* whether the sysfs upload file was written
    upFrames,     \* the frames sent over SPI, in order
    upDone,       \* whether upload_switch_config has returned
    upSerial,     \* every self.serial.write of the uploader so far, in order
    ucFile,       \* /lib/firmware/sja1110_uc.bin after upload_uc_firmware (sysfs)
    ucTrigger,    \* whether the sysfs uc_fw_upload file was written
    ucFrames,     \* the frames upload_uc_firmware sent over SPI, in order
    ucDone,       \* whether upload_uc_firmware has returned
    upProgress,   \* <<current_chunk, total_chunks>> of each progress report
                  \* of upload_switch_config's _upload_via_spi, in order
    ucProgress,   \* the same for upload_uc_firmware
    \* one program execution that drives one of the image builders
    \* (src/sja1110_correct_firmware.py, generate_all_binaries.py,
    \* src/sja1110_real_frer.py, src/goldbox_frer_config.py,
    \* src/sja1110_dual_firmware.py)
    gTool,        \* "correct", "all", "real", "goldbox" or "dual" ("none": no run)
    gPlan,        \* the add calls the program has yet to make, in order
    gStreams,     \* the builder's stream list or tables, as filled by the adds
    gSwitch,      \* the switch image last returned (<<>>: none yet)
    gUc,          \* the microcontroller image last returned (<<>>: none yet)
    gError,       \* the exception the last call raised ("none": it returned)
    gSeed,        \* the string-hash seed of the running interpreter
    gPrev,        \* the switch image an earlier execution returned for the
                  \* same calls (<<>>: there was none)
    \* one register access over SPI (src/sja1110_driver.py, sja1110_upload.py)
    spiAddress,   \* the register address
    spiValue,     \* the value to write, as four 16-bit limbs, highest first
    spiLength,    \* the length in bytes (0: no access)
    spiTx,        \* tx_data of the last _spi_write (<<>>: none yet)
    spiReadTx,    \* tx_data of the last _spi_read (<<>>: none yet)
    spiGot,       \* what the last _spi_read returned (<<>>: none yet)
    \* one SJA1110FRER (src/sja1110_frer.py) and the register path of
    \* SJA1110CLI.configure_frer (sja1110_cli.py)
    frStreams,    \* self.stream_identifications, as <<handle, entry>> pairs
    frSeqGen,     \* self.sequence_generation, as <<handle, entry>> pairs
    frSeqRec,     \* self.sequence_recovery, as <<handle, entry>> pairs
    frError,      \* the exception the last call raised ("none": it returned)
    frConfig,     \* what generate_configuration returned last (<<>>: nothing)
    frWords,      \* the register writes of configure_frer in order, equal
                  \* writes at successive addresses kept as one run
    frLast        \* the last call made: its name and arguments (<<>>: none)

crcVars == <<fcFile, fcPrev, fcWrote, fcOutcome, fcRun, fcWrites>>
bldVars == <<bSections, bFile, bBuilt, bValid>>
flVars == <<flPc, flError, flFile, flTx, flRx, flDev, flBursts, flResp,
            flFlashResp, flSent, flHeard>>

runVars == <<runTool, runInterface, runArgs, runPc, runStep, runAttrs, runOpen,
             runOpened, runPending, runExit>>

imVars == <<imUc, imSwitch, imUcOk, imSwitchOk, imPairOk, upInterface, upData,
            upFile, upTrigger, upFrames, upDone, upSerial, ucFile, ucTrigger,
            ucFrames, ucDone, upProgress, ucProgress>>

genVars == <<gTool, gPlan, gStreams, gSwitch, gUc, gError, gSeed, gPrev>>

spiVars == <<spiAddress, spiValue, spiLength, spiTx, spiReadTx, spiGot>>

frVars == <<frStreams, frSeqGen, frSeqRec, frError, frConfig, frWords, frLast>>

vars == <<crcVars, bldVars, flVars, runVars, imVars, genVars, spiVars, frVars>>

\* what each tool leaves alone: the state of the other tools
crcFrame == <<bldVars, flVars, runVars, imVars, genVars, spiVars, frVars>>
bldFrame == <<crcVars, flVars, runVars, imVars, genVars, spiVars, frVars>>
flFrame == <<crcVars, bldVars, runVars, imVars, genVars, spiVars, frVars>>
runFrame == <<crcVars, bldVars, flVars, imVars, genVars, spiVars, frVars>>
imFrame == <<crcVars, bldVars, flVars, runVars, genVars, spiVars, frVars>>
genFrame == <<crcVars, bldVars, flVars, runVars, imVars, spiVars, frVars>>
spiFrame == <<crcVars, bldVars, flVars, runVars, imVars, genVars, frVars>>
frFrame == <<crcVars, bldVars, flVars, runVars, imVars, genVars, spiVars>>

(***************************************************************************)
(* Bounds of the model.                                                    *)
(***************************************************************************)
MaxFileLen == 6     \* longest file handed to fix_crc
MaxRun == 3         \* fix_crc calls counted between two hand edits
MaxBursts == 2      \* pieces in which the device's pending output arrives
MaxTyped == 2       \* commands typed in one interactive session

\* the byte values files are made of
ByteSamples == {0, 106, 255}

(***************************************************************************)
(* Byte and word helpers.                                                  *)
(***************************************************************************)
Min(a, b) == IF a < b THEN a ELSE b

RECURSIVE BitXor(_, _)
\* a ^ b on non-negative integers
BitXor(a, b) ==
    IF a = 0 THEN b
    ELSE IF b = 0 THEN a
    ELSE (((a % 2) + (b % 2)) % 2) + 2 * BitXor(a \div 2, b \div 2)

\* a ^ b on 32-bit words
WordXor(a, b) == <<BitXor(a[1], b[1]), BitXor(a[2], b[2])>>

\* a >> 1 on a 32-bit word
WordShr1(a) == <<a[1] \div 2, (a[2] \div 2) + ((a[1] % 2) * 32768)>>

\* a >> 8 on a 32-bit word
WordShr8(a) == <<a[1] \div 256, (a[2] \div 256) + ((a[1] % 256) * 256)>>

\* data[:-4] and data[-4:] of a byte string of at least 4 bytes
Payload(data) == SubSeq(data, 1, Len(data) - 4)
Trailer(data) == SubSeq(data, Len(data) - 3, Len(data))

\* int.from_bytes(b, "little") of 4 bytes, and struct.unpack('<I', b)
FromLittle(b) == <<(b[4] * 256) + b[3], (b[2] * 256) + b[1]>>

\* the word written most significant byte first instead
ToLittleSwapped(w) == <<w[1] \div 256, w[1] % 256, w[2] \div 256, w[2] % 256>>

\* struct.pack('>I', w) of a 32-bit word, and struct.unpack('>I', b) of 4 bytes
ToBig(w) == <<w[1] \div 256, w[1] % 256, w[2] \div 256, w[2] % 256>>
FromBig(b) == <<(b[1] * 256) + b[2], (b[3] * 256) + b[4]>>

\* struct.pack('>I', n) and struct.pack('>H', n) of a small number
Be32(n) == <<n \div 16777216, (n \div 65536) % 256, (n \div 256) % 256, n % 256>>
Be16(n) == <<n \div 256, n % 256>>

\* b'\x00' * n
Zeros(n) == [i \in 1..n |-> 0]

\* data[a:b] of Python, 0-based and clipped to the data
Slice(data, a, b) == SubSeq(data, a + 1, Min(b, Len(data)))

\* w.to_bytes(4, "little"), and struct.pack('<I', w)
ToLittle(w) == <<w[2] % 256, w[2] \div 256, w[1] % 256, w[1] \div 256>>

(***************************************************************************)
(* zlib.crc32: the reflected CRC-32 of polynomial 0xEDB88320, initial      *)
(* value and final xor 0xFFFFFFFF, computed bytewise from its table.       *)
(***************************************************************************)
CrcPoly == <<60856, 33568>>     \* 0xEDB8 8320

RECURSIVE CrcTableEntry(_, _)
\* `k` more rounds of: c = (c >> 1) ^ poly if c & 1 else c >> 1
CrcTableEntry(c, k) ==
    IF k = 0 THEN c
    ELSE CrcTableEntry(IF c[2] % 2 = 1 THEN WordXor(WordShr1(c), CrcPoly)
                                       ELSE WordShr1(c),
                       k - 1)

CrcTable == [n \in 0..255 |-> CrcTableEntry(<<0, n>>, 8)]

\* one byte into the running CRC register
CrcStep(reg, byte) ==
    WordXor(WordShr8(reg), CrcTable[BitXor(reg[2] % 256, byte)])

RECURSIVE CrcRun(_, _, _, _)
\* the bytes data[lo..hi] into the running CRC register, in order (the
\* range is halved to keep the evaluation shallow)
CrcRun(reg, data, lo, hi) ==
    IF lo > hi THEN reg
    ELSE IF lo = hi THEN CrcStep(reg, data[lo])
    ELSE LET mid == (lo + hi) \div 2
             left == CrcRun(reg, data, lo, mid)
         IN  IF left[1] >= 0 THEN CrcRun(left, data, mid + 1, hi) ELSE left

\* zlib.crc32(data) & 0xFFFFFFFF
Crc32(data) ==
    LET reg == CrcRun(<<65535, 65535>>, data, 1, Len(data))
    IN  <<65535 - reg[1], 65535 - reg[2]>>

(***************************************************************************)
(* Long byte strings.  The images of the builders are hundreds of          *)
(* kilobytes, most of it padding and equal table entries, so a bytearray   *)
(* is kept as a sequence of pieces [times |-> n, block |-> bytes]: the     *)
(* bytes of block, n times over.                                           *)
(***************************************************************************)
\* len(piece)
PieceLen(piece) == piece.times * Len(piece.block)

RECURSIVE BLen(_)
\* len(buf)
BLen(buf) == IF buf = <<>> THEN 0 ELSE PieceLen(buf[1]) + BLen(Tail(buf))

\* buf.extend(block * n); nothing for n <= 0 or an empty block
BRepeat(buf, n, block) ==
    IF n <= 0 \/ block = <<>> THEN buf ELSE Append(buf, [times |-> n, block |-> block])

\* buf.extend(data)
BExtend(buf, data) == BRepeat(buf, 1, data)

\* buf.extend(bytes([b]) * n)
BFill(buf, n, b) == BRepeat(buf, n, <<b>>)

\* a padding loop that stops one byte late: while len(buf) <= size
BPadOneMore(buf, size, b) == BFill(buf, (size + 1) - BLen(buf), b)

\* while len(buf) < size: buf.append(b)
BPadTo(buf, size, b) == BFill(buf, size - BLen(buf), b)

RECURSIVE BByte(_, _)
\* buf[i], 0-based, for i below len(buf)
BByte(buf, i) ==
    IF i < PieceLen(buf[1])
    THEN buf[1].block[(i % Len(buf[1].block)) + 1]
    ELSE BByte(Tail(buf), i - PieceLen(buf[1]))

\* buf[a:b] as plain bytes, clipped to the buffer
BSlice(buf, a, b) ==
    LET stop == Min(b, BLen(buf))
    IN  IF stop <= a THEN <<>> ELSE [i \in 1..(stop - a) |-> BByte(buf, a + i - 1)]

RECURSIVE BTake(_, _)
\* buf[:n], for 0 <= n
BTake(buf, n) ==
    IF buf = <<>> \/ n <= 0 THEN <<>>
    ELSE IF n >= PieceLen(buf[1]) THEN <<buf[1]>> \o BTake(Tail(buf), n - PieceLen(buf[1]))
    ELSE LET L == Len(buf[1].block)
         IN  BExtend(BRepeat(<<>>, n \div L, buf[1].block),
                     SubSeq(buf[1].block, 1, n % L))

RECURSIVE BDrop(_, _)
\* buf[n:], for 0 <= n
BDrop(buf, n) ==
    IF buf = <<>> THEN <<>>
    ELSE IF n <= 0 THEN buf
    ELSE IF n >= PieceLen(buf[1]) THEN BDrop(Tail(buf), n - PieceLen(buf[1]))
    ELSE LET L == Len(buf[1].block)
             head == IF n % L = 0 THEN <<>> ELSE SubSeq(buf[1].block, (n % L) + 1, L)
         IN  BRepeat(BExtend(<<>>, head), (PieceLen(buf[1]) - n) \div L, buf[1].block)
                 \o Tail(buf)

\* buf[a:a + len(data)] = data, the slice inside buf
BWrite(buf, a, data) ==
    BExtend(BTake(buf, a), data) \o BDrop(buf, a + Len(data))

RECURSIVE BSum(_)
\* sum(buf)
BSum(buf) ==
    IF buf = <<>> THEN 0
    ELSE LET RECURSIVE Total(_, _)
             Total(block, i) ==
                 IF i > Len(block) THEN 0 ELSE block[i] + Total(block, i + 1)
         IN  (buf[1].times * Total(buf[1].block, 1)) + BSum(Tail(buf))

\* bit i (0..31) of a 32-bit word
WordBit(w, i) == IF i < 16 THEN (w[2] \div (2 ^ i)) % 2 ELSE (w[1] \div (2 ^ (i - 16))) % 2

\* the word with only bit i set
UnitWord(i) == IF i < 16 THEN <<0, 2 ^ i>> ELSE <<2 ^ (i - 16), 0>>

RECURSIVE MapBits(_, _, _, _)
\* the xor of the images m[i + 1] of the bits lo..hi that are set in w (the
\* range is halved to keep the evaluation shallow)
MapBits(m, w, lo, hi) ==
    IF lo = hi THEN IF WordBit(w, lo) = 1 THEN m[lo + 1] ELSE <<0, 0>>
    ELSE CHOOSE sum \in { WordXor(left, right) :
                             left \in {MapBits(m, w, lo, (lo + hi) \div 2)},
                             right \in {MapBits(m, w, ((lo + hi) \div 2) + 1, hi)} } : TRUE

\* the image of the word w under the xor-linear map m, given as the images
\* of the 32 unit words
MapWord(m, w) == MapBits(m, w, 0, 31)

RECURSIVE CrcZeroStepFrom(_)
\* one zero byte into the CRC register, as such a map (its images of the
\* unit words from bit i up).  A byte b moves the register r to this map
\* of r, xor CrcTable[b].
CrcZeroStepFrom(i) ==
    IF i > 31 THEN <<>>
    ELSE <<CrcStep(UnitWord(i), 0)>> \o CrcZeroStepFrom(i + 1)

CrcZeroStep == CrcZeroStepFrom(0)

RECURSIVE MapTwice(_, _)
\* the map m applied twice (its images of the unit words from bit i up)
MapTwice(m, i) ==
    IF i > 31 THEN <<>>
    ELSE <<MapWord(m, m[i + 1])>> \o MapTwice(m, i + 1)

RECURSIVE CrcZeroPowers(_)
\* the maps of 1, 2, 4, ..., 2^k zero bytes (each computed once, from the
\* one before)
CrcZeroPowers(k) ==
    IF k = 0 THEN <<CrcZeroStep>>
    ELSE CHOOSE powers \in { Append(prev, MapTwice(prev[k], 0)) :
                                prev \in {CrcZeroPowers(k - 1)} } : TRUE

\* enough of them for 2^20 - 1 bytes
CrcZeroPower == CrcZeroPowers(19)

RECURSIVE CrcRunOffsets(_, _)
\* what 1, 2, 4, ..., 2^k copies of the byte b add to the register by xor
CrcRunOffsets(b, k) ==
    IF k = 0 THEN <<CrcTable[b]>>
    ELSE CHOOSE offsets \in { Append(prev, WordXor(MapWord(CrcZeroPower[k], prev[k]), prev[k])) :
                                 prev \in {CrcRunOffsets(b, k - 1)} } : TRUE

\* the padding bytes of the image builders (0x00 and 0xFF), computed once
CrcZeroOffset == CrcRunOffsets(0, 19)
CrcOnesOffset == CrcRunOffsets(255, 19)

CrcRunOffset(b, k) ==
    IF b = 0 THEN CrcZeroOffset[k + 1]
    ELSE IF b = 255 THEN CrcOnesOffset[k + 1]
    ELSE CrcRunOffsets(b, k)[k + 1]

RECURSIVE CrcFill(_, _, _, _)
\* n copies of the byte b into the running CRC register, by the binary
\* digits of n from digit k up
CrcFill(reg, b, n, k) ==
    IF n = 0 THEN reg
    ELSE IF n % 2 = 1
    THEN CHOOSE out \in { CrcFill(next, b, n \div 2, k + 1) :
                             next \in { WordXor(MapWord(CrcZeroPower[k + 1], reg),
                                                CrcRunOffset(b, k)) } } : TRUE
    ELSE CrcFill(reg, b, n \div 2, k + 1)

RECURSIVE RepeatOffset(_, _, _)
\* what n copies of a block of L bytes add to the register by xor, given
\* what one copy adds
RepeatOffset(one, L, n) ==
    IF n = 0 THEN <<0, 0>>
    ELSE IF n % 2 = 1
    THEN CHOOSE out \in { WordXor(CrcFill(prev, 0, L, 0), one) :
                             prev \in {RepeatOffset(one, L, n - 1)} } : TRUE
    ELSE CHOOSE out \in { WordXor(CrcFill(half, 0, (n \div 2) * L, 0), half) :
                             half \in {RepeatOffset(one, L, n \div 2)} } : TRUE

\* one piece into the running CRC register
CrcPiece(reg, piece) ==
    IF piece.times = 1
    THEN CrcRun(reg, piece.block, 1, Len(piece.block))
    ELSE IF Len(piece.block) = 1
    THEN CrcFill(reg, piece.block[1], piece.times, 0)
    ELSE WordXor(CrcFill(reg, 0, PieceLen(piece), 0),
                 RepeatOffset(CrcRun(<<0, 0>>, piece.block, 1, Len(piece.block)),
                              Len(piece.block), piece.times))

RECURSIVE BCrcRun(_, _)
\* the pieces of buf into the running CRC register, in order
BCrcRun(reg, buf) ==
    IF buf = <<>> THEN reg
    ELSE CHOOSE out \in { BCrcRun(next, Tail(buf)) :
                             next \in {CrcPiece(reg, buf[1])} } : TRUE

\* zlib.crc32 of a long byte string
BCrc32(buf) ==
    LET reg == BCrcRun(<<65535, 65535>>, buf)
    IN  <<65535 - reg[1], 65535 - reg[2]>>

(***************************************************************************)
(* tools/fix_crc.py                                                        *)
(***************************************************************************)
\* the files the tool is run on: every byte string up to MaxFileLen
Files == UNION {[1..n -> ByteSamples] : n \in 0..MaxFileLen}

\* the length test comparing with <= instead of <
TooSmallInclusive(data) == Len(data) <= 4

\* len(data) < 4: the file cannot hold a trailer
TooSmall(data) == Len(data) < 4

\* the CRC taken over the whole file, stored trailer included
NewTrailerWholeFile(data) == ToLittle(Crc32(data))

\* the trailer fix_crc writes: new_crc.to_bytes(4, "little")
NewTrailer(data) == ToLittle(Crc32(Payload(data)))

\* whether fix_crc finds the stored trailer current
TrailerCurrent(data) == FromLittle(Trailer(data)) = Crc32(Payload(data))

\* fix_crc(path)
FixCrc ==
    /\ fcRun < MaxRun
    /\ fcPrev' = fcFile
    /\ fcRun' = fcRun + 1
    /\ UNCHANGED crcFrame
    /\ IF TooSmall(fcFile)
       THEN /\ fcOutcome' = "ValueError"
            /\ fcWrote' = FALSE
            /\ fcWrites' = fcWrites
            /\ fcFile' = fcFile
       ELSE IF TrailerCurrent(fcFile)
       THEN /\ fcOutcome' = "returned"
            /\ fcWrote' = FALSE
            /\ fcWrites' = fcWrites
            /\ fcFile' = fcFile
       ELSE /\ fcOutcome' = "returned"
            /\ fcWrote' = TRUE
            /\ fcWrites' = fcWrites + 1
            /\ fcFile' = Payload(fcFile) \o NewTrailer(fcFile)

\* the environment: a payload byte of the image is edited by hand, which
\* leaves the trailer stale
HandEdit ==
    /\ Len(fcFile) > 4
    /\ fcRun > 0
    /\ \E i \in 1..(Len(fcFile) - 4), b \in ByteSamples :
          /\ b # fcFile[i]
          /\ fcFile' = [fcFile EXCEPT ![i] = b]
    /\ fcPrev' = fcFile'
    /\ fcWrote' = FALSE
    /\ fcOutcome' = "none"
    /\ fcRun' = 0
    /\ fcWrites' = 0
    /\ UNCHANGED crcFrame

CrcNext == FixCrc \/ HandEdit

(***************************************************************************)
(* src/sja1110_firmware_builder.py                                         *)
(***************************************************************************)
\* section identifiers of SJA1110FirmwareBuilder
GENERAL_CONFIG == 4096      \* 0x1000
FRER_CONFIG == 24576        \* 0x6000
PTP_CONFIG == 28672         \* 0x7000

\* FirmwareHeader.magic 0x53A11110 and FirmwareHeader.header_size
HeaderMagic == <<21409, 4368>>
HeaderSize == 64

\* the configurations add_general_config is called with: the dictionary of
\* create_example_firmware and the empty dictionary (every key defaulted)
GeneralConfigs ==
    { [managed |-> TRUE, vlan |-> TRUE, qos |-> TRUE, tsn |-> TRUE,
       frer |-> TRUE, ptp |-> TRUE, mac |-> <<0, 4, 159, 17, 34, 51>>],
      [managed |-> TRUE, vlan |-> TRUE, qos |-> TRUE, tsn |-> TRUE,
       frer |-> FALSE, ptp |-> TRUE, mac |-> <<0, 0, 0, 0, 0, 0>>] }

\* the dictionaries add_ptp_config is called with
PtpConfigs ==
    { [mode |-> 2, profile |-> 1, priority1 |-> 128, priority2 |-> 128, domain |-> 0],
      [mode |-> 1, profile |-> 0, priority1 |-> 127, priority2 |-> 255, domain |-> 3] }

\* the binaries add_frer_config is called with: the 4-byte dummy of
\* create_example_firmware, an empty one, and two longer ones
FrerBinaries ==
    { <<0, 0, 0, 1>>,
      <<>>,
      [i \in 1..24 |-> i],
      [i \in 1..40 |-> 255 - i] }

\* int(datetime.now().timestamp()) at the time of the build
Timestamps == { <<27371, 37118>>, <<0, 1>> }

\* the section bytes of add_general_config
GeneralSection(c) ==
    LET mode == IF c.managed THEN 1 ELSE 0
        features == (IF c.vlan THEN 1 ELSE 0) + (IF c.qos THEN 2 ELSE 0)
                    + (IF c.tsn THEN 4 ELSE 0) + (IF c.frer THEN 8 ELSE 0)
                    + (IF c.ptp THEN 16 ELSE 0)
        data == Be32(mode) \o Be32(features) \o c.mac
    IN  data \o Zeros(32 - Len(data))

\* the section bytes of add_ptp_config
PtpSection(c) ==
    Be32(c.mode) \o Be32(c.profile)
        \o <<c.priority1, c.priority2, c.domain>> \o Zeros(5)

\* self.config_sections[section_id] = data
PutSection(sections, id, data) ==
    [k \in (DOMAIN sections) \cup {id} |-> IF k = id THEN data ELSE sections[k]]

\* As in create_example_firmware, the one caller, a builder is given its
\* sections, then builds once, then validates what it built.
AddGeneralConfig ==
    /\ ~bBuilt
    /\ \E c \in GeneralConfigs :
          bSections' = PutSection(bSections, GENERAL_CONFIG, GeneralSection(c))
    /\ UNCHANGED <<bFile, bBuilt, bValid>>
    /\ UNCHANGED bldFrame

AddFrerConfig ==
    /\ ~bBuilt
    /\ \E frer_binary \in FrerBinaries :
          bSections' = PutSection(bSections, FRER_CONFIG, frer_binary)
    /\ UNCHANGED <<bFile, bBuilt, bValid>>
    /\ UNCHANGED bldFrame

AddPtpConfig ==
    /\ ~bBuilt
    /\ \E c \in PtpConfigs :
          bSections' = PutSection(bSections, PTP_CONFIG, PtpSection(c))
    /\ UNCHANGED <<bFile, bBuilt, bValid>>
    /\ UNCHANGED bldFrame

\* FirmwareHeader.to_bytes: struct.pack('>IHHHHIIIII', ...), 32 bytes
HeaderBytes(payload_size, checksum, timestamp, config_offset, config_size) ==
    ToBig(HeaderMagic) \o Be16(1) \o Be16(0) \o Be16(0) \o Be16(HeaderSize)
        \o Be32(payload_size) \o ToBig(checksum) \o ToBig(timestamp)
        \o Be32(config_offset) \o Be32(config_size)

\* the first four bytes of hashlib.sha256(data).digest() as a 32-bit word.
\* SHA-256 itself is not evaluated: the digest is represented by a 32-bit
\* checksum of the same bytes, which like the digest is a function of every
\* byte and of its place.
Sha256Prefix(data) == Crc32(<<83, 72, 65>> \o data)

\* the least element of a non-empty set of numbers
Least(S) == CHOOSE x \in S : \A y \in S : x <= y

RECURSIVE PayloadOf(_, _, _)
\* the loop of build_firmware over sorted(self.config_sections.keys()):
\* section header, section data, padding to a 16-byte boundary
PayloadOf(sections, ids, payload) ==
    IF ids = {} THEN payload
    ELSE LET id == Least(ids)
             body == payload \o Be32(id) \o Be32(Len(sections[id])) \o sections[id]
             padding == (16 - (Len(body) % 16)) % 16
         IN  PayloadOf(sections, ids \ {id}, body \o Zeros(padding))

\* the bytes build_firmware writes to output_file
FirmwareImage(sections, timestamp) ==
    LET payload == PayloadOf(sections, DOMAIN sections, <<>>)
        n == Len(payload)
        checksum == Sha256Prefix(HeaderBytes(n, <<0, 0>>, timestamp, 64, n) \o payload)
    IN  HeaderBytes(n, checksum, timestamp, 64, n) \o payload

\* build_firmware(output_file)
BuildFirmware ==
    /\ ~bBuilt
    /\ \E timestamp \in Timestamps :
          bFile' = FirmwareImage(bSections, timestamp)
    /\ bBuilt' = TRUE
    /\ bValid' = "none"
    /\ UNCHANGED bSections
    /\ UNCHANGED bldFrame

\* f.read(payload_size) after the 64 bytes of header_data: payload_size is
\* the unsigned word of bytes 12..15, and the read stops at the end of file
ReadPayload(data, payload_size) ==
    IF payload_size[1] > 0 THEN Slice(data, 64, Len(data))
    ELSE Slice(data, 64, 64 + payload_size[2])

\* validate_firmware(firmware_file) on a file of these bytes
ValidateFirmware(data) ==
    LET header_data == Slice(data, 0, 64)
        magic == FromBig(Slice(header_data, 0, 4))
        payload_size == FromBig(Slice(header_data, 12, 16))
        stored_checksum == FromBig(Slice(header_data, 16, 20))
        payload == ReadPayload(data, payload_size)
        checksum_data == Slice(header_data, 0, 24) \o Zeros(4)
                            \o Slice(header_data, 28, 64) \o payload
    IN  IF Len(header_data) < 64 THEN FALSE
        ELSE IF magic # HeaderMagic THEN FALSE
        ELSE Sha256Prefix(checksum_data) = stored_checksum

\* builder.validate_firmware(firmware_file) on the file build_firmware wrote
ValidateBuilt ==
    /\ bBuilt
    /\ bValid' = IF ValidateFirmware(bFile) THEN "True" ELSE "False"
    /\ UNCHANGED <<bSections, bFile, bBuilt>>
    /\ UNCHANGED bldFrame

BldNext ==
    \/ AddGeneralConfig
    \/ AddFrerConfig
    \/ AddPtpConfig
    \/ BuildFirmware
    \/ ValidateBuilt

(***************************************************************************)
(* Text: bytes.decode, str.encode, str.lower, str.strip, `in`, str(n).     *)
(***************************************************************************)
\* the characters of codes 32..126, in order (the grave accent, which a
\* string of this notation cannot hold, by its name)
Printable ==
    << " ", "!", "\"", "#", "$", "%", "&", "'", "(", ")", "*", "+",
       ",", "-", ".", "/", "0", "1", "2", "3", "4", "5", "6", "7",
       "8", "9", ":", ";", "<", "=", ">", "?", "@", "A", "B", "C",
       "D", "E", "F", "G", "H", "I", "J", "K", "L", "M", "N", "O",
       "P", "Q", "R", "S", "T", "U", "V", "W", "X", "Y", "Z", "[",
       "\\", "]", "^", "_", "grave", "a", "b", "c", "d", "e", "f", "g",
       "h", "i", "j", "k", "l", "m", "n", "o", "p", "q", "r", "s",
       "t", "u", "v", "w", "x", "y", "z", "{", "|", "}", "~" >>

\* the character codes of the model's text: tab, line feed, carriage
\* return and the printable characters
Codes == {9, 10, 13} \cup (32..126)

\* chr(b)
Chr(b) ==
    IF b = 9 THEN "\t"
    ELSE IF b = 10 THEN "\n"
    ELSE IF b = 13 THEN "\r"
    ELSE Printable[b - 31]

\* ord(c)
OrdOf == [c \in {Chr(b) : b \in Codes} |-> CHOOSE b \in Codes : Chr(b) = c]

\* text.encode()
Encode(text) ==
    IF text = <<>> THEN <<>> ELSE [i \in 1..Len(text) |-> OrdOf[text[i]]]

\* data.decode('utf-8', errors='ignore'): a byte from 128 up that starts no
\* character (the only such bytes on the model's line) is left out
Decode(data) ==
    LET kept == SelectSeq(data, LAMBDA b : b < 128)
    IN  IF kept = <<>> THEN <<>> ELSE [i \in 1..Len(kept) |-> Chr(kept[i])]

\* c.lower() of one character
LowerOf ==
    [c \in DOMAIN OrdOf |->
        IF OrdOf[c] \in 65..90 THEN Chr(OrdOf[c] + 32) ELSE c]

\* text.lower()
Lower(text) ==
    IF text = <<>> THEN <<>> ELSE [i \in 1..Len(text) |-> LowerOf[text[i]]]

\* text.strip()
Strip(text) ==
    LET inked == {i \in 1..Len(text) : text[i] \notin {" ", "\t", "\n", "\r"}}
    IN  IF inked = {} THEN <<>>
        ELSE SubSeq(text, Least(inked), Least(inked) + Cardinality(
                 {i \in 1..Len(text) : i >= Least(inked)
                                       /\ \E j \in inked : j >= i}) - 1)

\* token in text
Contains(text, token) ==
    \E i \in 0..(Len(text) - Len(token)) :
        SubSeq(text, i + 1, i + Len(token)) = token

RECURSIVE Decimal(_)
\* str(n) of a non-negative number
Decimal(n) ==
    IF n < 10 THEN <<Printable[17 + n]>>
    ELSE Decimal(n \div 10) \o <<Printable[17 + (n % 10)]>>

(***************************************************************************)
(* sja1110_cli.py: SJA1110CLI.send_command and SJA1110CLI.flash_firmware   *)
(* on the serial interface, with the device at the other end of the line.  *)
(***************************************************************************)
\* chunk_size of the download loop
ChunkSize == 1024

\* the tokens flash_firmware looks for, and the command words it sends
BootloaderToken == <<"b", "o", "o", "t", "l", "o", "a", "d", "e", "r">>
ReadyToken == <<"r", "e", "a", "d", "y">>
SuccessToken == <<"s", "u", "c", "c", "e", "s", "s">>
ErrorToken == <<"e", "r", "r", "o", "r">>
RebootWord == <<"r", "e", "b", "o", "o", "t">>

\* the flash command sent without the size of the file
FlashCommandBare(file_size) == <<"f", "l", "a", "s", "h">>

\* f'flash {file_size}'
FlashCommand(file_size) == <<"f", "l", "a", "s", "h", " ">> \o Decimal(file_size)

\* flFlashResp before send_command('flash <size>') has returned
NoResponse == <<"<none>">>

\* a 72-byte file validate_firmware accepts: 64 bytes of header_data and a
\* payload of 8 bytes
ValidHead ==
    << 83, 161, 17, 16, 0, 1, 0, 0, 0, 0, 0, 64, 0, 0, 0, 8,
       90, 17, 16, 240, 101, 0, 0, 0, 0, 0, 0, 64, 0, 0, 0, 8,
       1, 2, 3, 4, 5, 6, 7, 8, 9, 10, 11, 12, 13, 14, 15, 16,
       17, 18, 19, 20, 21, 22, 23, 24, 25, 26, 27, 28, 29, 30, 31, 32,
       170, 187, 204, 221, 226, 185, 2, 233 >>

\* bytes that follow the payload in a longer file
Filler(n) == [i \in 1..n |-> (i * 7) % 256]

\* the files flash_firmware is called on: accepted files of 72, 1024 and
\* 1025 bytes, a file too short for a header and a file with a wrong checksum
FlashFiles ==
    { ValidHead,
      ValidHead \o Filler(ChunkSize - 72),
      ValidHead \o Filler(ChunkSize - 71),
      SubSeq(ValidHead, 1, 32),
      [ValidHead EXCEPT ![70] = 0] }

\* what the device may answer to 'bootloader', to 'flash <size>', after the
\* download and to 'reboot' (a device that stays silent is the timeout of
\* the loop that waits for it)
BootloaderReplies ==
    { <<255>> \o Encode(<<"B", "o", "o", "t", "l", "o", "a", "d", "e", "r", ">">>),
      Encode(<<"?", ">">>) }
FlashReplies ==
    { Encode(<<"r", "e", "a", "d", "y", ">">>),
      Encode(<<"e", "r", "r", "o", "r", ":", " ", "b", "a", "d", " ",
               "s", "i", "z", "e", "\r", "\n">>) }
CompletionReplies ==
    { Encode(<<"S", "U", "C", "C", "E", "S", "S">>),
      Encode(<<"e", "r", "r", "o", "r", " ", "5">>) }
RebootReplies == { Encode(<<">">>) }

\* '>' in response or '#' in response
HasPrompt(response) == \E i \in 1..Len(response) : response[i] \in {">", "#"}

\* the test of the flash response that lets any answer through
ReadyUnchecked(response) == Len(response) > 0

\* 'ready' in response.lower()
ReadyToFlash(response) == Contains(Lower(response), ReadyToken)

\* a read that takes one byte more than the chunk size
ReadChunkOneMore(file, pos) == Slice(file, pos, pos + ChunkSize + 1)

\* f.read(chunk_size) at file position pos
ReadChunk(file, pos) == Slice(file, pos, pos + ChunkSize)

\* self.serial.write(cmd_bytes) of send_command
WriteCommand(command) ==
    Append(flTx, [kind |-> "command", data |-> Encode(command \o <<"\r", "\n">>)])

\* flash_firmware(firmware_file) up to its first wait: validation, then the
\* write of send_command('bootloader')
FlashFirmware ==
    /\ flPc = "idle"
    /\ IF ~ValidateFirmware(flFile)
       THEN /\ flPc' = "failed"
            /\ flError' = "Invalid firmware file"
            /\ UNCHANGED <<flTx, flDev>>
       ELSE /\ flPc' = "bootloader"
            /\ flTx' = WriteCommand(BootloaderToken)
            /\ \E reply \in BootloaderReplies : flDev' = flDev \o reply
            /\ UNCHANGED flError
    /\ UNCHANGED <<flFile, flRx, flBursts, flResp, flFlashResp, flSent, flHeard>>
    /\ UNCHANGED flFrame

\* the device: some of its pending output reaches the port's input buffer
DeviceDeliver ==
    /\ flPc \in {"bootloader", "flash", "download", "completion", "reboot"}
    /\ flDev # <<>>
    /\ \E k \in 1..Len(flDev) :
          /\ (flBursts + 1 < MaxBursts) \/ (k = Len(flDev))
          /\ flRx' = flRx \o SubSeq(flDev, 1, k)
          /\ flDev' = SubSeq(flDev, k + 1, Len(flDev))
          /\ flBursts' = IF k = Len(flDev) THEN 0 ELSE flBursts + 1
    /\ UNCHANGED <<flPc, flError, flFile, flTx, flResp, flFlashResp, flSent, flHeard>>
    /\ UNCHANGED flFrame

\* flash_firmware from the return of send_command with `response` up to its
\* next wait
CommandReturns(response) ==
    IF flPc = "bootloader"
    THEN IF ~Contains(Lower(response), BootloaderToken)
         THEN /\ flPc' = "failed"
              /\ flError' = "Failed to enter bootloader mode"
              /\ flResp' = response
              /\ UNCHANGED <<flTx, flDev, flFlashResp, flSent>>
         ELSE /\ flPc' = "flash"
              /\ flTx' = WriteCommand(FlashCommand(Len(flFile)))
              /\ \E reply \in FlashReplies : flDev' = flDev \o reply
              /\ flResp' = <<>>
              /\ UNCHANGED <<flError, flFlashResp, flSent>>
    ELSE IF flPc = "flash"
    THEN /\ flFlashResp' = response
         /\ flResp' = response
         /\ flSent' = 0
         /\ IF ~ReadyToFlash(response)
            THEN /\ flPc' = "failed"
                 /\ flError' = "Flash preparation failed"
            ELSE /\ flPc' = "download"
                 /\ UNCHANGED flError
         /\ UNCHANGED <<flTx, flDev>>
    ELSE /\ flPc' = "done"
         /\ flResp' = response
         /\ UNCHANGED <<flError, flTx, flDev, flFlashResp, flSent>>

\* send_command's loop finds bytes waiting: it reads them all, adds them to
\* the response and returns if a prompt has come
CommandRead ==
    /\ flPc \in {"bootloader", "flash", "reboot"}
    /\ flRx # <<>>
    /\ flRx' = <<>>
    /\ LET response == flResp \o Decode(flRx)
       IN  IF HasPrompt(response)
           THEN CommandReturns(Strip(response))
           ELSE /\ flResp' = response
                /\ UNCHANGED <<flPc, flError, flTx, flDev, flFlashResp, flSent>>
    /\ UNCHANGED <<flFile, flBursts, flHeard>>
    /\ UNCHANGED flFrame

\* send_command's loop runs out of its 5 seconds with nothing left to read
CommandTimeout ==
    /\ flPc \in {"bootloader", "flash", "reboot"}
    /\ flRx = <<>>
    /\ CommandReturns(Strip(flResp))
    /\ UNCHANGED <<flFile, flRx, flBursts, flHeard>>
    /\ UNCHANGED flFrame

\* one round of the download loop with a chunk to send
SendChunk ==
    /\ flPc = "download"
    /\ ReadChunk(flFile, flSent) # <<>>
    /\ flTx' = Append(flTx, [kind |-> "chunk", data |-> ReadChunk(flFile, flSent)])
    /\ flSent' = flSent + Len(ReadChunk(flFile, flSent))
    /\ UNCHANGED <<flPc, flError, flFile, flRx, flDev, flBursts, flResp,
                   flFlashResp, flHeard>>
    /\ UNCHANGED flFrame

\* the download loop reads the end of the file and breaks; the device, which
\* has the whole file, reports
EndOfFile ==
    /\ flPc = "download"
    /\ ReadChunk(flFile, flSent) = <<>>
    /\ flPc' = "completion"
    /\ flResp' = <<>>
    /\ \E report \in CompletionReplies : flDev' = flDev \o report
    /\ UNCHANGED <<flError, flFile, flTx, flRx, flBursts, flFlashResp, flSent,
                   flHeard>>
    /\ UNCHANGED flFrame

\* the completion loop finds bytes waiting: `response` is what this read
\* returned
CompletionRead ==
    /\ flPc = "completion"
    /\ flRx # <<>>
    /\ flRx' = <<>>
    /\ flHeard' = flHeard \o flRx
    /\ LET response == Decode(flRx)
       IN  IF Contains(Lower(response), SuccessToken)
           THEN /\ flPc' = "reboot"
                /\ flTx' = WriteCommand(RebootWord)
                /\ \E reply \in RebootReplies : flDev' = flDev \o reply
                /\ flResp' = <<>>
                /\ UNCHANGED flError
           ELSE IF Contains(Lower(response), ErrorToken)
           THEN /\ flPc' = "failed"
                /\ flError' = "Flash failed"
                /\ flResp' = response
                /\ UNCHANGED <<flTx, flDev>>
           ELSE /\ flResp' = response
                /\ UNCHANGED <<flPc, flError, flTx, flDev>>
    /\ UNCHANGED <<flFile, flBursts, flFlashResp, flSent>>
    /\ UNCHANGED flFrame

\* the completion loop runs out of its 30 seconds with nothing left to read
CompletionTimeout ==
    /\ flPc = "completion"
    /\ flRx = <<>>
    /\ flPc' = "failed"
    /\ flError' = "Flash timeout"
    /\ UNCHANGED <<flFile, flTx, flRx, flDev, flBursts, flResp, flFlashResp,
                   flSent, flHeard>>
    /\ UNCHANGED flFrame

FlashNext ==
    \/ FlashFirmware
    \/ DeviceDeliver
    \/ CommandRead
    \/ CommandTimeout
    \/ SendChunk
    \/ EndOfFile
    \/ CompletionRead
    \/ CompletionTimeout

(***************************************************************************)
(* The transport handles of a run: main() of sja1110_cli.py with           *)
(* SJA1110CLI and SJA1110Driver, and main() of sja1110_upload.py with      *)
(* SJA1110Uploader.  A handle is named by its interface: "serial", "spi",  *)
(* "i2c".  Any call that touches the device or a file may raise.           *)
(***************************************************************************)
\* the command lines: the CLI with each interface and each command that
\* makes an SJA1110CLI, the upload tool with each interface and each
\* combination of --reset, --uc-only and --switch-only
RunConfigs ==
    { [tool |-> "cli", interface |-> i, args |-> [command |-> c]] :
          i \in {"serial", "spi", "i2c"},
          c \in {"version", "status", "frer", "flash", "reset", "interactive"} }
    \cup
    { [tool |-> "upload", interface |-> i,
       args |-> [reset |-> r, uc_only |-> u, switch_only |-> w]] :
          i \in {"sysfs", "spi", "serial"}, r \in BOOLEAN, u \in BOOLEAN,
          w \in BOOLEAN }

\* how SJA1110Driver.__init__ may go: the module is missing, open raises,
\* a setting made after the open raises (SPI), read_register raises in
\* _verify_device, or all is well
DriverOutcomes(interface) ==
    IF interface = "spi"
    THEN {"no module", "open fails", "setup fails", "verify fails", "ok"}
    ELSE {"no module", "open fails", "verify fails", "ok"}

\* the handles open when SJA1110Driver.__init__ is left
DriverOpen(interface, outcome) ==
    IF outcome \in {"setup fails", "verify fails", "ok"} THEN {interface} ELSE {}

\* the attributes set on the driver when SJA1110Driver.__init__ is left
DriverAttrs(interface, outcome) ==
    IF interface = "spi"
    THEN IF outcome = "no module" THEN {} ELSE {"driver.spi"}
    ELSE IF outcome \in {"no module", "open fails"} THEN {} ELSE {"driver.i2c_bus"}

\* SJA1110Driver.close()
DriverClose(interface, attrs, open) ==
    IF interface = "spi" /\ "driver.spi" \in attrs THEN open \ {"spi"}
    ELSE IF interface = "i2c" /\ "driver.i2c_bus" \in attrs THEN open \ {"i2c"}
    ELSE open

\* SJA1110CLI.close()
CliClose(interface, attrs, open) ==
    IF "cli.serial" \in attrs THEN open \ {"serial"}
    ELSE IF "cli.driver" \in attrs THEN DriverClose(interface, attrs, open)
    ELSE open

\* SJA1110Uploader.close()
UploaderClose(attrs, open) ==
    (IF "uploader.spi" \in attrs THEN open \ {"spi"} ELSE open)
        \ (IF "uploader.serial" \in attrs THEN {"serial"} ELSE {})

\* main() of the CLI up to the try statement: cli = SJA1110CLI(...)
CliConstruct ==
    /\ runTool = "cli"
    /\ runPc = "start"
    /\ IF runInterface = "serial"
       THEN \E outcome \in {"open fails", "ok"} :
               /\ runOpen' = IF outcome = "ok" THEN {"serial"} ELSE {}
               /\ runAttrs' = IF outcome = "ok" THEN {"cli.serial"} ELSE {}
               /\ runPc' = IF outcome = "ok" THEN "try" ELSE "exited"
               /\ runExit' = IF outcome = "ok" THEN "none" ELSE "exception"
       ELSE \E outcome \in DriverOutcomes(runInterface) :
               /\ runOpen' = DriverOpen(runInterface, outcome)
               /\ runAttrs' = DriverAttrs(runInterface, outcome)
                                 \cup (IF outcome = "ok" THEN {"cli.driver"} ELSE {})
               /\ runPc' = IF outcome = "ok" THEN "try" ELSE "exited"
               /\ runExit' = IF outcome = "ok" THEN "none" ELSE "exception"
    /\ runOpened' = runOpen'
    /\ UNCHANGED <<runTool, runInterface, runArgs, runStep, runPending>>
    /\ UNCHANGED runFrame

\* the try body of the CLI's main() for a single command
CliCommand ==
    /\ runTool = "cli"
    /\ runPc = "try"
    /\ runArgs.command # "interactive"
    /\ \E raised \in BOOLEAN : runPending' = raised
    /\ runPc' = "finally"
    /\ runStep' = runStep + 1
    /\ UNCHANGED <<runTool, runInterface, runArgs, runAttrs, runOpen, runOpened, runExit>>
    /\ UNCHANGED runFrame

\* one round of the interactive loop: a command is typed and run; what it
\* raises is caught and printed
CliInteractive ==
    /\ runTool = "cli"
    /\ runPc = "try"
    /\ runArgs.command = "interactive"
    /\ runStep < MaxTyped
    /\ runStep' = runStep + 1
    /\ UNCHANGED <<runTool, runInterface, runArgs, runPc, runAttrs, runOpen,
                   runOpened, runPending, runExit>>
    /\ UNCHANGED runFrame

\* 'exit' is typed: the interactive loop breaks
CliInteractiveExit ==
    /\ runTool = "cli"
    /\ runPc = "try"
    /\ runArgs.command = "interactive"
    /\ runPc' = "finally"
    /\ UNCHANGED <<runTool, runInterface, runArgs, runStep, runAttrs, runOpen,
                   runOpened, runPending, runExit>>
    /\ UNCHANGED runFrame

\* finally: cli.close(), then main() is left
CliFinally ==
    /\ runTool = "cli"
    /\ runPc = "finally"
    /\ runOpen' = CliClose(runInterface, runAttrs, runOpen)
    /\ runPc' = "exited"
    /\ runExit' = IF runPending THEN "exception" ELSE "returned"
    /\ UNCHANGED <<runTool, runInterface, runArgs, runStep, runAttrs, runOpened,
                   runPending>>
    /\ UNCHANGED runFrame

\* how SJA1110Uploader.__init__ may go
UploaderOutcomes(interface) ==
    IF interface = "sysfs" THEN {"ok"}
    ELSE IF interface = "spi" THEN {"no module", "open fails", "setup fails", "ok"}
    ELSE {"no module", "open fails", "ok"}

\* main() of the upload tool up to the try statement:
\* uploader = SJA1110Uploader(...)
UploaderConstruct ==
    /\ runTool = "upload"
    /\ runPc = "start"
    /\ \E outcome \in UploaderOutcomes(runInterface) :
          /\ runOpen' = IF runInterface = "sysfs" \/ outcome \in {"no module", "open fails"}
                        THEN {} ELSE {runInterface}
          /\ runAttrs' = IF runInterface = "spi" /\ outcome # "no module"
                         THEN {"uploader.spi"}
                         ELSE IF runInterface = "serial" /\ outcome = "ok"
                         THEN {"uploader.serial"}
                         ELSE {}
          /\ runPc' = IF outcome = "ok" THEN "try" ELSE "exited"
          /\ runExit' = IF outcome = "ok" THEN "none" ELSE "exception"
    /\ runOpened' = runOpen'
    /\ UNCHANGED <<runTool, runInterface, runArgs, runStep, runPending>>
    /\ UNCHANGED runFrame

\* the calls of the upload tool's try body, in order
UploadPlan(args) ==
    (IF args.reset THEN <<"reset_switch">> ELSE <<>>)
        \o <<"verify_device">>
        \o (IF ~args.uc_only THEN <<"upload_switch_config">> ELSE <<>>)
        \o (IF ~args.switch_only THEN <<"upload_uc_firmware">> ELSE <<>>)

\* whether a call of the try body touches the device or a file
MayRaise(step, interface) ==
    IF step = "reset_switch" THEN interface \in {"sysfs", "spi"}
    ELSE IF step = "verify_device" THEN interface = "spi"
    ELSE TRUE

\* the next call of the upload tool's try body; an exception is caught,
\* printed and turned into sys.exit(1)
UploadStep ==
    /\ runTool = "upload"
    /\ runPc = "try"
    /\ LET plan == UploadPlan(runArgs)
           step == plan[runStep + 1]
       IN  \E raised \in (IF MayRaise(step, runInterface) THEN BOOLEAN ELSE {FALSE}) :
              /\ runPending' = raised
              /\ runPc' = IF raised \/ runStep + 1 = Len(plan) THEN "finally" ELSE "try"
    /\ runStep' = runStep + 1
    /\ UNCHANGED <<runTool, runInterface, runArgs, runAttrs, runOpen, runOpened, runExit>>
    /\ UNCHANGED runFrame

\* finally: uploader.close(), then main() is left
UploadFinally ==
    /\ runTool = "upload"
    /\ runPc = "finally"
    /\ runOpen' = UploaderClose(runAttrs, runOpen)
    /\ runPc' = "exited"
    /\ runExit' = IF runPending THEN "exit 1" ELSE "returned"
    /\ UNCHANGED <<runTool, runInterface, runArgs, runStep, runAttrs, runOpened,
                   runPending>>
    /\ UNCHANGED runFrame

RunNext ==
    \/ CliConstruct
    \/ CliCommand
    \/ CliInteractive
    \/ CliInteractiveExit
    \/ CliFinally
    \/ UploaderConstruct
    \/ UploadStep
    \/ UploadFinally

(***************************************************************************)
(* The image verifiers (verify_firmware.py, CorrectSJA1110Firmware         *)
(* .validate_firmware) and SJA1110Uploader.upload_switch_config.  The      *)
(* images of the model have the layout of the real ones at a small size:   *)
(* marker, header, a few bytes of content, CRC trailer.                    *)
(***************************************************************************)
IMAGE_VALID_MARKER == <<106, 166, 106, 166, 106, 166, 106, 166>>
HEADER_EXEC == <<221, 17>>
SJA1110_DEVICE_ID == <<46848, 782>>     \* 0xB700 030E
CONFIG_START_ADDR == 131072             \* 0x020000
SpiChunkSize == 256

\* data.startswith(prefix)
StartsWith(data, prefix) ==
    Len(data) >= Len(prefix) /\ SubSeq(data, 1, Len(prefix)) = prefix

\* a payload with the little-endian CRC32 of it as trailer
Sealed(payload) == payload \o ToLittle(Crc32(payload))

\* a switch image: marker, device id, configuration flags 0x80000000,
\* content, trailer
GoodSwitch ==
    Sealed(IMAGE_VALID_MARKER \o ToLittle(SJA1110_DEVICE_ID) \o <<0, 0, 0, 128>>
              \o <<1, 2, 3, 4>>)

\* a microcontroller image: marker, a header with HEADER_EXEC at its bytes
\* 8..9, version word, trailer
GoodUc ==
    Sealed(IMAGE_VALID_MARKER \o Zeros(8) \o HEADER_EXEC \o <<0, 0>>
              \o <<1, 0, 1, 0>>)

\* the switch images handed to the tools: the good one; one with a content
\* byte edited and one with a trailer byte edited (stale trailers); one with
\* the marker overwritten by zeros; one with the marker cut off; one sealed
\* with another device id
SwitchImages ==
    { GoodSwitch,
      [GoodSwitch EXCEPT ![17] = 9],
      [GoodSwitch EXCEPT ![24] = (GoodSwitch[24] + 1) % 256],
      Zeros(8) \o SubSeq(GoodSwitch, 9, Len(GoodSwitch)),
      SubSeq(GoodSwitch, 9, Len(GoodSwitch)),
      Sealed(IMAGE_VALID_MARKER \o <<1, 2, 3, 4>> \o <<0, 0, 0, 128>>
                \o <<1, 2, 3, 4>>) }

\* a microcontroller image of 514 bytes: two chunks of 256 bytes and a
\* third of 2 bytes, which is a partial word
LongUc ==
    Sealed(IMAGE_VALID_MARKER \o Zeros(8) \o HEADER_EXEC \o <<0, 0>>
              \o [i \in 1..490 |-> (i * 7) % 256])

\* the microcontroller images handed to the tools: the good one, the long
\* one, one with a content byte edited (stale trailer), one sealed without
\* HEADER_EXEC, one with the marker overwritten by zeros
UcImages ==
    { GoodUc,
      LongUc,
      [GoodUc EXCEPT ![21] = 9],
      Sealed(IMAGE_VALID_MARKER \o Zeros(12) \o <<1, 0, 1, 0>>),
      Zeros(8) \o SubSeq(GoodUc, 9, Len(GoodUc)) }

\* FirmwareVerifier.verify_uc_firmware on an existing file of these bytes
VerifyUc(data) ==
    IF ~StartsWith(data, IMAGE_VALID_MARKER) THEN FALSE
    ELSE IF ~\E i \in 8..(Min(100, Len(data) - 1) - 1) :
                 Slice(data, i, i + 2) = HEADER_EXEC
    THEN FALSE
    ELSE TRUE

\* FirmwareVerifier.verify_switch_config on an existing file of these bytes
VerifySwitch(data) ==
    IF ~StartsWith(data, IMAGE_VALID_MARKER) THEN FALSE
    ELSE IF Len(data) >= 12 /\ FromLittle(Slice(data, 8, 12)) # SJA1110_DEVICE_ID
    THEN FALSE
    ELSE TRUE

\* CorrectSJA1110Firmware.validate_firmware(uc_firmware, switch_config)
CorrectValidate(uc_firmware, switch_config) ==
    IF ~StartsWith(uc_firmware, IMAGE_VALID_MARKER) THEN FALSE
    ELSE IF ~Contains(Slice(uc_firmware, 0, 100), HEADER_EXEC) THEN FALSE
    ELSE IF ~StartsWith(switch_config, IMAGE_VALID_MARKER) THEN FALSE
    ELSE TRUE

VerifyUcFirmware ==
    /\ imUcOk = "none"
    /\ imUc # <<>>
    /\ imUcOk' = IF VerifyUc(imUc) THEN "True" ELSE "False"
    /\ UNCHANGED <<imUc, imSwitch, imSwitchOk, imPairOk, upInterface, upData,
                   upFile, upTrigger, upFrames, upDone>>
    /\ UNCHANGED <<upSerial, ucFile, ucTrigger, ucFrames, ucDone>>
    /\ UNCHANGED <<upProgress, ucProgress>>
    /\ UNCHANGED imFrame

VerifySwitchConfig ==
    /\ imSwitchOk = "none"
    /\ imSwitch # <<>>
    /\ imSwitchOk' = IF VerifySwitch(imSwitch) THEN "True" ELSE "False"
    /\ UNCHANGED <<imUc, imSwitch, imUcOk, imPairOk, upInterface, upData,
                   upFile, upTrigger, upFrames, upDone>>
    /\ UNCHANGED <<upSerial, ucFile, ucTrigger, ucFrames, ucDone>>
    /\ UNCHANGED <<upProgress, ucProgress>>
    /\ UNCHANGED imFrame

CorrectValidateFirmware ==
    /\ imPairOk = "none"
    /\ imUc # <<>>
    /\ imPairOk' = IF CorrectValidate(imUc, imSwitch) THEN "True" ELSE "False"
    /\ UNCHANGED <<imUc, imSwitch, imUcOk, imSwitchOk, upInterface, upData,
                   upFile, upTrigger, upFrames, upDone>>
    /\ UNCHANGED <<upSerial, ucFile, ucTrigger, ucFrames, ucDone>>
    /\ UNCHANGED <<upProgress, ucProgress>>
    /\ UNCHANGED imFrame

\* a write frame carrying the value with its low byte first
SpiWriteFrameLowFirst(address, value) ==
    <<128, (address \div 65536) % 256, (address \div 256) % 256, address % 256>>
        \o ToLittle(value)

\* _spi_write(address, value, 4): the frame handed to spi.xfer2
SpiWriteFrame(address, value) ==
    <<128, (address \div 65536) % 256, (address \div 256) % 256, address % 256>>
        \o ToBig(value)

RECURSIVE SpiWriteBlock(_, _, _)
\* _spi_write_block(address, data) from offset i on: one frame per 4 bytes,
\* the last word filled up with zeros
SpiWriteBlock(address, data, i) ==
    IF i >= Len(data) THEN <<>>
    ELSE LET word_data == Slice(data, i, i + 4)
             padded == word_data \o Zeros(4 - Len(word_data))
         IN  <<SpiWriteFrame(address + i, FromBig(padded))>>
                 \o SpiWriteBlock(address, data, i + 4)

RECURSIVE UploadViaSpi(_, _, _)
\* _upload_via_spi(data) from offset i on, in chunks of chunk_size
UploadViaSpi(base_addr, data, i) ==
    IF i >= Len(data) THEN <<>>
    ELSE SpiWriteBlock(base_addr + i, Slice(data, i, i + SpiChunkSize), 0)
             \o UploadViaSpi(base_addr, data, i + SpiChunkSize)

\* the progress reports of _upload_via_spi(data): current_chunk and
\* total_chunks after each chunk (progress = current_chunk / total_chunks * 100)
UploadProgress(data) ==
    LET total_chunks == (Len(data) + SpiChunkSize - 1) \div SpiChunkSize
    IN  [k \in 1..total_chunks |->
            <<(((k - 1) * SpiChunkSize) \div SpiChunkSize) + 1, total_chunks>>]

\* upload_switch_config's treatment of the marker
WithMarker(data) ==
    IF ~StartsWith(data, IMAGE_VALID_MARKER) THEN IMAGE_VALID_MARKER \o data
    ELSE data

\* upload_switch_config(config_file) on an existing file
UploadSwitchConfig ==
    /\ ~upDone
    /\ imSwitch # <<>>
    /\ upDone' = TRUE
    /\ upData' = WithMarker(imSwitch)
    /\ IF upInterface = "sysfs"
       THEN /\ upFile' = WithMarker(imSwitch)
            /\ \E exists \in BOOLEAN : upTrigger' = exists
            /\ UNCHANGED <<upFrames, upProgress>>
       ELSE IF upInterface = "spi"
       THEN /\ upFrames' = UploadViaSpi(CONFIG_START_ADDR, WithMarker(imSwitch), 0)
            /\ upProgress' = UploadProgress(WithMarker(imSwitch))
            /\ UNCHANGED <<upFile, upTrigger>>
       ELSE UNCHANGED <<upFile, upTrigger, upFrames, upProgress>>
    /\ UNCHANGED <<imUc, imSwitch, imUcOk, imSwitchOk, imPairOk, upInterface>>
    /\ UNCHANGED <<upSerial, ucFile, ucTrigger, ucFrames, ucDone, ucProgress>>
    /\ UNCHANGED imFrame

\* upload_uc_firmware(firmware_file) on an existing file: over sysfs the
\* file is in /lib/firmware afterwards (copied there unless it was read from
\* there), over SPI it is sent from address 0, and the serial branch does
\* not exist
UploadUcFirmware ==
    /\ ~ucDone
    /\ imUc # <<>>
    /\ ucDone' = TRUE
    /\ IF upInterface = "sysfs"
       THEN /\ ucFile' = imUc
            /\ \E exists \in BOOLEAN : ucTrigger' = exists
            /\ UNCHANGED <<ucFrames, ucProgress>>
       ELSE IF upInterface = "spi"
       THEN /\ ucFrames' = UploadViaSpi(0, imUc, 0)
            /\ ucProgress' = UploadProgress(imUc)
            /\ UNCHANGED <<ucFile, ucTrigger>>
       ELSE UNCHANGED <<ucFile, ucTrigger, ucFrames, ucProgress>>
    /\ UNCHANGED <<imUc, imSwitch, imUcOk, imSwitchOk, imPairOk, upInterface,
                   upData, upFile, upTrigger, upFrames, upDone, upSerial,
                   upProgress>>
    /\ UNCHANGED imFrame

ImageNext ==
    \/ VerifyUcFirmware
    \/ VerifySwitchConfig
    \/ CorrectValidateFirmware
    \/ UploadSwitchConfig
    \/ UploadUcFirmware

(***************************************************************************)
(* The image builders.  One program execution drives one builder: it makes *)
(* the add calls of its plan and then asks for the images.  A stream list  *)
(* is kept as runs [arg |-> stream, times |-> n]: n successive add calls   *)
(* with equal arguments.                                                   *)
(***************************************************************************)
\* struct.pack('<H', n) and struct.pack('<I', n) of a number that fits
Le16(n) == <<n % 256, n \div 256>>
Le32(n) == <<n % 256, (n \div 256) % 256, (n \div 65536) % 256, n \div 16777216>>

\* buf[a:a + len(data)] = data on plain bytes, 0-based, the slice inside buf
SetSlice(buf, a, data) ==
    [i \in 1..Len(buf) |->
        IF i > a /\ i <= a + Len(data) THEN data[i - a] ELSE buf[i]]

RECURSIVE TotalTimes(_)
\* len(streams) of a stream list kept as runs
TotalTimes(runs) ==
    IF runs = <<>> THEN 0 ELSE runs[1].times + TotalTimes(Tail(runs))

\* the plan's next add call appended to a stream list
AddRun(runs, call) == Append(runs, call)

(***************************************************************************)
(* src/sja1110_correct_firmware.py: CorrectSJA1110Firmware.                *)
(***************************************************************************)
CONFIG_START_ADDRESS == 131072          \* 0x20000
CorrectUcTargetSize == 327680           \* 320 * 1024
CorrectSwitchTargetSize == 655360       \* 640 * 1024
CbTableSize == 2048
DpiTableSize == 1024

\* the streams the program adds: the two of create_corrected_firmware, and
\* one that goes to ten ports (all field values fit their struct formats)
CorrectStreams ==
    { [stream_id |-> 1, src_port |-> 2, dst_ports |-> <<3, 4>>,
       vlan_id |-> 100, priority |-> 7],
      [stream_id |-> 2, src_port |-> 1, dst_ports |-> <<5, 6>>,
       vlan_id |-> 101, priority |-> 6],
      [stream_id |-> 3, src_port |-> 0,
       dst_ports |-> <<1, 2, 3, 4, 5, 6, 7, 8, 9, 10>>,
       vlan_id |-> 10, priority |-> 5] }

\* how many times in a row the program adds a stream: once, beyond the 32
\* entries of the DPI table, beyond the 128 entries of the CB table, and
\* more than fit into the microcontroller image
CorrectTimes == {1, 33, 65, 20475}

\* the add calls of one execution: none, one run, or two runs
CorrectPlans ==
    {<<>>}
    \cup { <<[arg |-> s, times |-> n]>> : s \in CorrectStreams, n \in CorrectTimes }
    \cup { <<[arg |-> s, times |-> 1], [arg |-> t, times |-> n]>> :
              s \in CorrectStreams, t \in CorrectStreams, n \in {1, 65} }

\* add_frer_stream: the next call of the plan
CorrectAddFrerStream ==
    /\ gTool = "correct"
    /\ gPlan # <<>>
    /\ gStreams' = AddRun(gStreams, gPlan[1])
    /\ gPlan' = Tail(gPlan)
    /\ gError' = "none"
    /\ UNCHANGED <<gTool, gSwitch, gUc, gSeed, gPrev>>
    /\ UNCHANGED genFrame

RECURSIVE Bytes8(_, _)
\* struct.pack('<B', p) of each port from index i on, one after the other
Bytes8(ports, i) ==
    IF i > Len(ports) THEN <<>> ELSE <<ports[i]>> \o Bytes8(ports, i + 1)

\* build_uc_firmware: the entry of one stream, filled up to 16 bytes
UcStreamData(stream) ==
    LET stream_data == Le16(stream.stream_id) \o Le16(stream.vlan_id)
                           \o <<stream.priority, stream.src_port,
                                Len(stream.dst_ports)>>
                           \o Bytes8(stream.dst_ports, 1)
    IN  IF Len(stream_data) < 16
        THEN stream_data \o Zeros(16 - Len(stream_data))
        ELSE stream_data

RECURSIVE UcStreams(_, _)
\* build_uc_firmware: the entries of all streams appended to frer_config
UcStreams(buf, runs) ==
    IF runs = <<>> THEN buf
    ELSE UcStreams(BRepeat(buf, runs[1].times, UcStreamData(runs[1].arg)),
                   Tail(runs))

\* build_uc_firmware: the 64-byte header
UcHeader ==
    SetSlice(SetSlice(SetSlice(SetSlice(Zeros(64), 8, HEADER_EXEC),
                               12, Le32(65537)),
                      16, Le32(32768)),
             20, Le32(0))

\* the image with zlib.crc32 of all of it appended as struct.pack('<I', crc)
\* the CRC taken after four bytes were reserved for the trailer
WithCrcOverReserved(buf) == BExtend(buf, ToLittle(BCrc32(BFill(buf, 4, 0))))

WithCrc(buf) == BExtend(buf, ToLittle(BCrc32(buf)))

\* build_uc_firmware()
CorrectUcFirmware(runs) ==
    LET firmware == BExtend(BExtend(<<>>, IMAGE_VALID_MARKER), UcHeader)
        frer_header == Le32(TotalTimes(runs)) \o Le32(1)
        filled == UcStreams(BExtend(firmware, frer_header), runs)
    IN  WithCrc(BPadTo(filled, CorrectUcTargetSize - 4, 255))

\* build_switch_config: the 56-byte configuration header
SwitchHeader ==
    SetSlice(SetSlice(Zeros(56), 0, ToLittle(SJA1110_DEVICE_ID)),
             4, ToLittle(<<32768, 0>>))

\* build_switch_config: the general parameters table
GeneralParams ==
    SetSlice(SetSlice(SetSlice(SetSlice(Zeros(256), 0, Le32(0)),
                               4, Le32(2047)),
                      8, Le32(1)),
             12, Le32(1))

\* build_switch_config: the configuration of one port
PortConfig(port) ==
    LET speed == IF port = 0 THEN 3
                 ELSE IF port <= 4 THEN (IF port >= 2 THEN 3 ELSE 2)
                 ELSE 2
    IN  SetSlice(SetSlice(SetSlice(SetSlice(Zeros(128), 0, Le32(1)),
                                   4, Le32(speed)),
                          8, Le32(1)),
                 12, Le32(1))

RECURSIVE PortConfigs(_)
\* the port configurations from `port` up to port 10
PortConfigs(port) ==
    IF port > 10 THEN <<>> ELSE PortConfig(port) \o PortConfigs(port + 1)

RECURSIVE CbEntries(_, _)
\* build_switch_config: the CB entries of one stream, for its destination
\* ports from index i (0-based) on
CbEntries(stream, i) ==
    IF i >= Len(stream.dst_ports) THEN <<>>
    ELSE Le16(stream.stream_id)
             \o <<stream.src_port, stream.dst_ports[i + 1]>>
             \o Le16(61889) \o <<i + 1, 1>> \o Zeros(8)
             \o CbEntries(stream, i + 1)

RECURSIVE CbTable(_, _)
\* build_switch_config: the entries written into cb_table while
\* entry_offset + 16 <= len(cb_table), `room` entries being free
CbTable(runs, room) ==
    IF runs = <<>> \/ room = 0 THEN <<>>
    ELSE LET d == Len(runs[1].arg.dst_ports)
             block == CbEntries(runs[1].arg, 0)
         IN  IF d = 0 THEN CbTable(Tail(runs), room)
             ELSE LET whole == Min(runs[1].times, room \div d)
                      left == room - (whole * d)
                  IN  IF whole < runs[1].times
                      THEN BExtend(BRepeat(<<>>, whole, block),
                                   SubSeq(block, 1, 16 * left))
                      ELSE BRepeat(<<>>, whole, block)
                               \o CbTable(Tail(runs), left)

\* build_switch_config: the DPI entry of one stream
DpiEntry(stream) ==
    Le16(stream.stream_id) \o Le16(stream.vlan_id)
        \o <<stream.priority, stream.src_port, 1, 1>> \o Zeros(24)

RECURSIVE DpiTable(_, _)
\* build_switch_config: the entries written into dpi_table while
\* i * 32 + 32 <= len(dpi_table), `room` entries being free
DpiTable(runs, room) ==
    IF runs = <<>> \/ room = 0 THEN <<>>
    ELSE BRepeat(<<>>, Min(runs[1].times, room), DpiEntry(runs[1].arg))
             \o DpiTable(Tail(runs), room - Min(runs[1].times, room))

\* build_switch_config()
CorrectSwitchConfig(runs) ==
    LET config == BExtend(BExtend(<<>>, IMAGE_VALID_MARKER), SwitchHeader)
        padded == BPadTo(config, CONFIG_START_ADDRESS, 0)
        ports == BExtend(BExtend(padded, GeneralParams), PortConfigs(0))
        cb_table == BPadTo(CbTable(runs, CbTableSize \div 16), CbTableSize, 0)
        dpi_table == BPadTo(DpiTable(runs, DpiTableSize \div 32), DpiTableSize, 0)
        tables == ports \o cb_table \o dpi_table
    IN  WithCrc(BPadTo(tables, CorrectSwitchTargetSize - 4, 255))

CorrectBuildUcFirmware ==
    /\ gTool = "correct"
    /\ gPlan = <<>>
    /\ gUc = <<>>
    /\ gUc' = CorrectUcFirmware(gStreams)
    /\ gError' = "none"
    /\ UNCHANGED <<gTool, gPlan, gStreams, gSwitch, gSeed, gPrev>>
    /\ UNCHANGED genFrame

CorrectBuildSwitchConfig ==
    /\ gTool = "correct"
    /\ gPlan = <<>>
    /\ gSwitch = <<>>
    /\ gSwitch' = CorrectSwitchConfig(gStreams)
    /\ gError' = "none"
    /\ UNCHANGED <<gTool, gPlan, gStreams, gUc, gSeed, gPrev>>
    /\ UNCHANGED genFrame

(***************************************************************************)
(* generate_all_binaries.py: generate_switch_binary(streams).              *)
(***************************************************************************)
RTAG_ETHERTYPE == 61889                 \* 0xF1C1
SWITCH_BINARY_SIZE == 655360

\* streams handed to generate_switch_binary: three of main()'s scenarios
\* (the second without a 'priority' key), one that names its ports in
\* descending order and one that names a port twice
AllStreams ==
    { [id |-> 1, src_port |-> 1, dst_ports |-> <<2, 3>>, vlan |-> 100],
      [id |-> 3, src_port |-> 1, dst_ports |-> <<2, 3, 4, 0>>, vlan |-> 10,
       priority |-> 7],
      [id |-> 1, src_port |-> 0,
       dst_ports |-> <<1, 2, 3, 4, 5, 6, 7, 8, 9, 10>>, vlan |-> 100,
       priority |-> 7],
      [id |-> 4, src_port |-> 5, dst_ports |-> <<10, 7, 0>>, vlan |-> 300],
      [id |-> 5, src_port |-> 1, dst_ports |-> <<2, 2>>, vlan |-> 100] }

\* the stream lists of one execution: none, one or two streams
AllStreamLists ==
    {<<>>}
    \cup { <<[arg |-> s, times |-> 1]>> : s \in AllStreams }
    \cup { <<[arg |-> s, times |-> 1], [arg |-> t, times |-> 1]>> :
              s \in AllStreams, t \in AllStreams }

\* stream.get(key, default)
Get(stream, key, default) ==
    IF key \in DOMAIN stream THEN stream[key] ELSE default

RECURSIVE PortMaskSum(_, _)
\* sum(1 << p for p in ports), from index i on
PortMaskSum(ports, i) ==
    IF i > Len(ports) THEN 0 ELSE (2 ^ ports[i]) + PortMaskSum(ports, i + 1)

\* the three entries generate_switch_binary packs for a stream
AllCbEntry(stream) ==
    Le16(stream.id) \o Le16(PortMaskSum(stream.dst_ports, 1)) \o <<128>> \o Le16(0)

AllRecEntry(stream) ==
    Le16(stream.id) \o <<stream.src_port, 128>> \o Le16(0) \o Le16(32) \o Le16(100)

AllDpiEntry(stream) ==
    Le16(stream.id) \o Le16(Get(stream, "vlan", 100)) \o Le16(RTAG_ETHERTYPE)
        \o <<1, 1, Get(stream, "priority", 6), stream.src_port>>

\* for stream in streams: buf.extend(Pack(stream))
Entries(buf, runs, Pack(_)) ==
    buf \o [k \in 1..Len(runs) |->
               [times |-> runs[k].times, block |-> Pack(runs[k].arg)]]

\* generate_switch_binary(streams)
AllSwitchBinary(streams) ==
    LET header == BExtend(BExtend(BExtend(<<>>, IMAGE_VALID_MARKER),
                                  ToLittle(SJA1110_DEVICE_ID)),
                          ToLittle(<<61440, 0>>))
        general == BExtend(BExtend(BPadTo(header, 212992, 0), Le32(1)), <<0, 10>>)
        seq_gen == Entries(BPadTo(general, 524288, 0), streams, AllCbEntry)
        ind_rec == Entries(BPadTo(seq_gen, 589824, 0), streams, AllRecEntry)
        dpi == Entries(BPadTo(ind_rec, 655360, 0), streams, AllDpiEntry)
    IN  WithCrc(BPadTo(dpi, SWITCH_BINARY_SIZE, 0))

GenerateSwitchBinary ==
    /\ gTool = "all"
    /\ gSwitch = <<>>
    /\ gSwitch' = AllSwitchBinary(gStreams)
    /\ gError' = "none"
    /\ UNCHANGED <<gTool, gPlan, gStreams, gUc, gSeed, gPrev>>
    /\ UNCHANGED genFrame

(***************************************************************************)
(* src/sja1110_real_frer.py: SJA1110SwitchConfig.                          *)
(***************************************************************************)
GENERAL_PARAMS == 212992                \* 0x034000
CB_SEQ_GEN_TABLE == 524288              \* 0x080000
CB_IND_REC_TABLE == 589824              \* 0x090000
DPI_TABLE == 655360                     \* 0x0A0000

\* FRERStream with its defaults (cb_enable, rtag_type, sequence_history)
FRERStream(stream_id, ingress_port, egress_ports, vlan_id, priority, history) ==
    [stream_id |-> stream_id, ingress_port |-> ingress_port,
     egress_ports |-> egress_ports, vlan_id |-> vlan_id, priority |-> priority,
     cb_enable |-> TRUE, rtag_type |-> 61889, sequence_history |-> history]

\* the streams the program adds: the stream of the FRER scenario (1: port 2
\* to ports 3 and 4), one with a single egress port, and one that names an
\* egress port twice, out of order
RealStreams ==
    { FRERStream(1, 2, <<3, 4>>, 100, 7, 16),
      FRERStream(2, 1, <<5>>, 200, 6, 16),
      FRERStream(3, 0, <<4, 3, 4>>, 300, 5, 16) }

\* how many times in a row the program adds a stream: once, often enough to
\* fill more than the 0x10000 bytes between CB_IND_REC_TABLE and DPI_TABLE
\* with 10-byte recovery entries, and often enough to fill more than the
\* 0x10000 bytes between CB_SEQ_GEN_TABLE and CB_IND_REC_TABLE with 7-byte
\* sequence-generation entries
RealTimes == {1, 6554, 9363}

\* the calls of one execution
RealPlans ==
    {<<>>}
    \cup { <<[call |-> "add_frer_stream", arg |-> s, times |-> n]>> :
              s \in RealStreams, n \in RealTimes }
    \cup { <<[call |-> "add_frer_stream", arg |-> s, times |-> 1],
             [call |-> "add_frer_stream", arg |-> t, times |-> 1]>> :
              s \in RealStreams, t \in RealStreams }
    \cup { <<[call |-> "create_redundant_path",
              arg |-> [stream_id |-> 1, source_port |-> 0, primary_port |-> 1,
                       secondary_port |-> 2, destination_port |-> 10,
                       vlan_id |-> 100, priority |-> 7],
              times |-> 1]>> }

\* SJA1110SwitchConfig.__init__
RealEmpty ==
    [streams |-> <<>>, cb_seq_gen_entries |-> <<>>, cb_ind_rec_entries |-> <<>>,
     dpi_entries |-> <<>>]

\* a port mask that numbers the ports from 1: bit p - 1 for port p
PortMaskOneBased(ports) ==
    LET RECURSIVE Sum(_)
        Sum(set) == IF set = {} THEN 0
                    ELSE LET p == CHOOSE q \in set : TRUE
                         IN  (2 ^ (p - 1)) + Sum(set \ {p})
    IN  Sum({ports[i] : i \in 1..Len(ports)} \ {0})

\* port_mask = 0; for port in ports: port_mask |= (1 << port)
PortMaskOr(ports) ==
    LET RECURSIVE Sum(_)
        Sum(set) == IF set = {} THEN 0
                    ELSE LET p == CHOOSE q \in set : TRUE
                         IN  (2 ^ p) + Sum(set \ {p})
    IN  Sum({ports[i] : i \in 1..Len(ports)})

\* d[key] = value on a dict kept in insertion order, as <<key, value>> pairs
DictSet(d, key, value) ==
    IF \E i \in 1..Len(d) : d[i][1] = key
    THEN [i \in 1..Len(d) |-> IF d[i][1] = key THEN <<key, value>> ELSE d[i]]
    ELSE Append(d, <<key, value>>)

\* add_frer_stream(stream), n times in a row
RealAdd(config, stream, n) ==
    LET seq_gen == [stream_handle |-> stream.stream_id,
                    port_mask |-> PortMaskOr(stream.egress_ports),
                    seq_num |-> 0, enabled |-> stream.cb_enable]
        ind_rec == [stream_handle |-> stream.stream_id,
                    ingress_port |-> stream.ingress_port, seq_num |-> 0,
                    history_len |-> stream.sequence_history,
                    reset_timeout |-> 100, enabled |-> stream.cb_enable]
        dpi_entry == [stream_id |-> stream.stream_id, vlan_id |-> stream.vlan_id,
                      priority |-> stream.priority,
                      cb_en |-> IF stream.cb_enable THEN 1 ELSE 0,
                      rtag_type |-> stream.rtag_type, sn_num_greater |-> 1,
                      ingress_port |-> stream.ingress_port]
    IN  [streams |-> Append(config.streams, [arg |-> stream, times |-> n]),
         cb_seq_gen_entries |->
             IF Len(stream.egress_ports) > 1
             THEN Append(config.cb_seq_gen_entries, [arg |-> seq_gen, times |-> n])
             ELSE config.cb_seq_gen_entries,
         cb_ind_rec_entries |->
             Append(config.cb_ind_rec_entries, [arg |-> ind_rec, times |-> n]),
         dpi_entries |-> DictSet(config.dpi_entries, stream.stream_id, dpi_entry)]

\* create_redundant_path(...)
RealRedundantPath(config, a) ==
    LET added == RealAdd(config,
                         FRERStream(a.stream_id, a.source_port,
                                    <<a.primary_port, a.secondary_port>>,
                                    a.vlan_id, a.priority, 32),
                         1)
        elim_rec == [stream_handle |-> a.stream_id,
                     ingress_port |-> a.destination_port, seq_num |-> 0,
                     history_len |-> 32, reset_timeout |-> 100, enabled |-> TRUE]
    IN  [added EXCEPT !.cb_ind_rec_entries =
             Append(added.cb_ind_rec_entries, [arg |-> elim_rec, times |-> 1])]

\* the next call of the plan: add_frer_stream or create_redundant_path
RealAddFrerStream ==
    /\ gTool = "real"
    /\ gPlan # <<>>
    /\ gStreams' = IF gPlan[1].call = "create_redundant_path"
                   THEN RealRedundantPath(gStreams, gPlan[1].arg)
                   ELSE RealAdd(gStreams, gPlan[1].arg, gPlan[1].times)
    /\ gPlan' = Tail(gPlan)
    /\ gError' = "none"
    /\ UNCHANGED <<gTool, gSwitch, gUc, gSeed, gPrev>>
    /\ UNCHANGED genFrame

\* CBSequenceGeneration.to_bytes
SeqGenBytes(entry) ==
    Le16(entry.stream_handle) \o Le16(entry.port_mask)
        \o <<IF entry.enabled THEN 128 ELSE 0>> \o Le16(entry.seq_num)

\* CBIndividualRecovery.to_bytes
IndRecBytes(entry) ==
    Le16(entry.stream_handle)
        \o <<entry.ingress_port, IF entry.enabled THEN 128 ELSE 0>>
        \o Le16(entry.seq_num) \o Le16(entry.history_len)
        \o Le16(entry.reset_timeout)

\* the DPI entry generate_switch_binary packs for a <<stream_id, dpi_cfg>> item
RealDpiBytes(item) ==
    Le16(item[1]) \o Le16(item[2].vlan_id) \o Le16(item[2].rtag_type)
        \o <<item[2].cb_en, item[2].sn_num_greater, item[2].priority,
             item[2].ingress_port>>

\* generate_switch_binary: the configuration when the loop over
\* cb_seq_gen_entries begins, when the loop over cb_ind_rec_entries begins,
\* and when the loop over dpi_entries begins
RealBeforeSeqGen ==
    LET header == BExtend(BExtend(BExtend(<<>>, IMAGE_VALID_MARKER),
                                  ToLittle(SJA1110_DEVICE_ID)),
                          ToLittle(<<61440, 0>>))
        general == BExtend(BExtend(BFill(header, GENERAL_PARAMS - BLen(header), 0),
                                   Le32(1)),
                           <<10, 10>>)
    IN  BFill(general, CB_SEQ_GEN_TABLE - BLen(general), 0)

RealBeforeIndRec(config) ==
    LET seq_gen == Entries(RealBeforeSeqGen, config.cb_seq_gen_entries, SeqGenBytes)
    IN  IF BLen(seq_gen) < CB_IND_REC_TABLE
        THEN BFill(seq_gen, CB_IND_REC_TABLE - BLen(seq_gen), 0)
        ELSE seq_gen

RealBeforeDpi(config) ==
    LET ind_rec == Entries(RealBeforeIndRec(config), config.cb_ind_rec_entries,
                           IndRecBytes)
    IN  IF BLen(ind_rec) < DPI_TABLE
        THEN BFill(ind_rec, DPI_TABLE - BLen(ind_rec), 0)
        ELSE ind_rec

\* generate_switch_binary()
RealSwitchBinary(config) ==
    WithCrc(RealBeforeDpi(config)
                \o [k \in 1..Len(config.dpi_entries) |->
                       [times |-> 1, block |-> RealDpiBytes(config.dpi_entries[k])]])

RealGenerateSwitchBinary ==
    /\ gTool = "real"
    /\ gPlan = <<>>
    /\ gSwitch = <<>>
    /\ gSwitch' = RealSwitchBinary(gStreams)
    /\ gError' = "none"
    /\ UNCHANGED <<gTool, gPlan, gStreams, gUc, gSeed, gPrev>>
    /\ UNCHANGED genFrame

(***************************************************************************)
(* src/goldbox_frer_config.py: GoldBoxFRERConfig.  The builtin hash() of a *)
(* string is keyed with a seed the interpreter draws when it starts        *)
(* (unless PYTHONHASHSEED fixes it); the keyed hash itself is represented  *)
(* by the CRC32 of the seed followed by the string.                        *)
(***************************************************************************)
GB_GENERAL_PARAMS == 212992             \* 0x034000
CB_CONFIG_BASE == 524288                \* 0x080000
DPI_CONFIG_BASE == 655360               \* 0x0A0000
VLAN_TABLE_BASE == 262144               \* 0x040000
PFE_MAC0 == 4

\* the seeds an interpreter may start with
HashSeeds == {1, 2}

\* hash(name) under the interpreter's seed
StrHash(seed, name) == Crc32(<<seed>> \o Encode(name))

\* FRERTestScenario; eliminate_at is <<>> for None and <<port>> for a port
FRERTestScenario(name, input_port, replicate_to, eliminate_at, vlan_id, priority) ==
    [name |-> name, input_port |-> input_port, replicate_to |-> replicate_to,
     eliminate_at |-> eliminate_at, vlan_id |-> vlan_id, priority |-> priority]

\* the scenarios the program adds: two of the module's own (PFE to P2A/P2B
\* without elimination, P2A to P6/P7 eliminated at the PFE port), and four
\* with a port that is no SJA1110 port: input port 0, a replication port
\* 20 (P3A_GMAC0), elimination ports 11 and 0
GoldBoxScenarios ==
    { FRERTestScenario(<<"A">>, 4, <<2, 3>>, <<>>, 100, 7),
      FRERTestScenario(<<"B">>, 2, <<5, 6>>, <<4>>, 200, 6),
      FRERTestScenario(<<"C">>, 0, <<2, 3>>, <<>>, 100, 7),
      FRERTestScenario(<<"D">>, 4, <<2, 20>>, <<>>, 100, 7),
      FRERTestScenario(<<"E">>, 2, <<5, 6>>, <<11>>, 200, 6),
      FRERTestScenario(<<"F">>, 2, <<5, 6>>, <<0>>, 200, 6) }

\* the calls of one execution: none, one scenario, or two
GoldBoxPlans ==
    {<<>>}
    \cup { <<[arg |-> s, times |-> 1]>> : s \in GoldBoxScenarios }
    \cup { <<[arg |-> s, times |-> 1], [arg |-> t, times |-> 1]>> :
              s \in GoldBoxScenarios,
              t \in {u \in GoldBoxScenarios : u.name \in {<<"A">>, <<"B">>}} }

\* validate_port(port)
ValidatePort(port) ==
    IF port >= 20 THEN FALSE
    ELSE IF port < 1 \/ port > 10 THEN FALSE
    ELSE TRUE

\* the truth value of scenario.eliminate_at: None and 0 are false
Truthy(eliminate_at) == eliminate_at # <<>> /\ eliminate_at[1] # 0

\* add_test_scenario raises ValueError
ScenarioRefused(scenario) ==
    \/ ~ValidatePort(scenario.input_port)
    \/ \E i \in 1..Len(scenario.replicate_to) : ~ValidatePort(scenario.replicate_to[i])
    \/ (Truthy(scenario.eliminate_at) /\ ~ValidatePort(scenario.eliminate_at[1]))

\* add_test_scenario(scenario): the next call of the plan
GoldBoxAddTestScenario ==
    /\ gTool = "goldbox"
    /\ gPlan # <<>>
    /\ gPlan' = Tail(gPlan)
    /\ IF ScenarioRefused(gPlan[1].arg)
       THEN /\ gError' = "ValueError"
            /\ UNCHANGED gStreams
       ELSE /\ gError' = "none"
            /\ gStreams' = Append(gStreams, gPlan[1])
    /\ UNCHANGED <<gTool, gSwitch, gUc, gSeed, gPrev>>
    /\ UNCHANGED genFrame

\* generate_cb_config(scenario)
GoldBoxCbConfig(seed, scenario) ==
    LET stream_id == StrHash(seed, scenario.name)[2]
        seq_gen == Le16(stream_id) \o Le16(PortMaskOr(scenario.replicate_to))
                       \o <<0, 128>> \o Le16(0)
    IN  IF Truthy(scenario.eliminate_at)
        THEN seq_gen \o Le16(stream_id) \o <<scenario.eliminate_at[1], 128>>
                 \o Le16(32) \o Le16(100)
        ELSE seq_gen

\* generate_dpi_config(scenario)
GoldBoxDpiConfig(seed, scenario) ==
    Le16(StrHash(seed, scenario.name)[2]) \o Le16(scenario.vlan_id)
        \o <<scenario.priority, scenario.input_port, 1>>

\* _add_vlan_config: the entry of one scenario
GoldBoxVlanEntry(scenario) ==
    LET ports == <<scenario.input_port>> \o scenario.replicate_to
                     \o (IF Truthy(scenario.eliminate_at)
                         THEN scenario.eliminate_at ELSE <<>>)
    IN  Le32((scenario.vlan_id % 4096) + ((PortMaskOr(ports) % 2048) * 4096))

\* config_data.extend(Pack(scenario)) for each scenario of the list
Scenarios(buf, list, Pack(_)) ==
    buf \o [k \in 1..Len(list) |-> [times |-> 1, block |-> Pack(list[k].arg)]]

\* generate_switch_binary() under the interpreter's seed
GoldBoxSwitchBinary(seed, list) ==
    LET Cb(scenario) == GoldBoxCbConfig(seed, scenario)
        Dpi(scenario) == GoldBoxDpiConfig(seed, scenario)
        header == BExtend(BExtend(BExtend(<<>>, IMAGE_VALID_MARKER),
                                  ToLittle(SJA1110_DEVICE_ID)),
                          ToLittle(<<61440, 0>>))
        general == BExtend(BExtend(BPadTo(header, GB_GENERAL_PARAMS, 0), Le32(1)),
                           <<PFE_MAC0, 255>>)
        cb == Scenarios(BPadTo(general, CB_CONFIG_BASE, 0), list, Cb)
        dpi == Scenarios(BPadTo(cb, DPI_CONFIG_BASE, 0), list, Dpi)
        vlan == Scenarios(BPadTo(dpi, VLAN_TABLE_BASE, 0), list, GoldBoxVlanEntry)
    IN  WithCrc(vlan)

GoldBoxGenerateSwitchBinary ==
    /\ gTool = "goldbox"
    /\ gPlan = <<>>
    /\ gSwitch = <<>>
    /\ gSwitch' = GoldBoxSwitchBinary(gSeed, gStreams)
    /\ gError' = "none"
    /\ UNCHANGED <<gTool, gPlan, gStreams, gUc, gSeed, gPrev>>
    /\ UNCHANGED genFrame

\* the program is executed once more and makes the same calls: a new
\* interpreter with its own seed, an equal scenario list, the image of the
\* earlier execution kept for comparison
GoldBoxRunAgain ==
    /\ gTool = "goldbox"
    /\ gSwitch # <<>>
    /\ gPrev = <<>>
    /\ gPrev' = gSwitch
    /\ gSwitch' = <<>>
    /\ gSeed' \in HashSeeds
    /\ gError' = "none"
    /\ UNCHANGED <<gTool, gPlan, gStreams, gUc>>
    /\ UNCHANGED genFrame

(***************************************************************************)
(* src/sja1110_dual_firmware.py: SJA1110FirmwareBuilder.                   *)
(***************************************************************************)
DualUcSize == 262144                    \* 256 * 1024
DualSwitchSize == 655360                \* 640 * 1024
DeviceConfigSize == 65536               \* 0x10000
L2LookupSize == 131072                  \* 0x20000
DualCbTableOffset == 32768              \* frer_offset = 0x8000
DualDpiTableOffset == 49152             \* frer_offset + 0x4000
DualRtagType == 61889                   \* 0xF1C1

\* the ports of port_config with speed '1000M'
GigabitPorts == {0, 2, 3, 4}

\* the streams main() adds first, one whose fifth replication point has
\* slot 1024, and one whose replication point has no room in the lookup table
DualStreams ==
    { [stream_id |-> 1, src_port |-> 0, dst_ports |-> <<2, 3>>, vlan_id |-> 100, priority |-> 7],
      [stream_id |-> 2, src_port |-> 2, dst_ports |-> <<5, 6>>, vlan_id |-> 101, priority |-> 6],
      [stream_id |-> 102, src_port |-> 0, dst_ports |-> <<1, 2, 3, 4, 5>>, vlan_id |-> 103, priority |-> 4],
      [stream_id |-> 700, src_port |-> 5, dst_ports |-> <<6>>, vlan_id |-> 102, priority |-> 5] }

\* the calls of one execution: none, one stream, or two different streams
DualPlans ==
    {<<>>}
    \cup { <<[arg |-> s, times |-> 1]>> : s \in DualStreams }
    \cup { <<[arg |-> p[1], times |-> 1], [arg |-> p[2], times |-> 1]>> :
              p \in {q \in DualStreams \X DualStreams : q[1].stream_id < q[2].stream_id} }

\* the replication_points add_frer_replication_stream gives a stream
ReplicationPoints(stream) ==
    [i \in 1..Len(stream.dst_ports) |->
        [rp_id |-> (stream.stream_id * 10) + (i - 1),
         input_port |-> stream.src_port,
         output_port |-> stream.dst_ports[i],
         rtag_type |-> DualRtagType,
         path_id |-> i]]

\* add_frer_replication_stream(...): the next call of the plan
DualAddFrerReplicationStream ==
    /\ gTool = "dual"
    /\ gPlan # <<>>
    /\ gPlan' = Tail(gPlan)
    /\ gStreams' = Append(gStreams, gPlan[1])
    /\ gError' = "none"
    /\ UNCHANGED <<gTool, gSwitch, gUc, gSeed, gPrev>>
    /\ UNCHANGED genFrame

\* stream_header and the rp_data of its replication points
DualUcStream(stream) ==
    LET rps == ReplicationPoints(stream)
        RECURSIVE Points(_)
        Points(i) ==
            IF i > Len(rps) THEN <<>>
            ELSE Be16(rps[i].rp_id) \o <<rps[i].input_port, rps[i].output_port>>
                     \o Be16(rps[i].rtag_type) \o <<rps[i].path_id, 1>> \o Points(i + 1)
    IN  Be32(stream.stream_id) \o Be16(stream.vlan_id)
            \o <<stream.priority, Len(rps)>> \o Points(1)

\* firmware[-4:] = struct.pack('>I', sum(firmware) & 0xFFFFFFFF)
WithSum(buf) ==
    LET n == BLen(buf)
    IN  BWrite(buf, n - 4, Be32(BSum(buf)))

\* build_microcontroller_firmware() over the stream list
DualUcFirmware(list) ==
    LET header == ToBig(<<57005, 48879>>) \o Be16(272) \o Be16(1) \o Be32(0)
                      \o Be32(32768) \o Be32(0) \o Zeros(40)
        uc_config == Be32(1) \o Be32(255) \o Be32(4096) \o Be32(TotalTimes(list))
        streams == Entries(BExtend(BExtend(<<>>, header), uc_config), list, DualUcStream)
    IN  WithSum(BPadTo(streams, DualUcSize, 255))

\* mac_config of one port
DualMacConfig(port_id) ==
    Be32(1) \o Be32(IF port_id \in GigabitPorts THEN 3 ELSE 2) \o Be32(1) \o Be32(1)

RECURSIVE DualPorts(_, _)
\* device_config after the loop over port_config from port_id on
DualPorts(device_config, port_id) ==
    IF port_id > 10 THEN device_config
    ELSE DualPorts(BWrite(device_config, 4096 + (port_id * 256), DualMacConfig(port_id)),
                   port_id + 1)

\* cb_entry of one replication point
DualCbEntry(stream, rp) ==
    Be16(stream.stream_id) \o <<rp.input_port, rp.output_port>>
        \o Be16(rp.rtag_type) \o <<rp.path_id, 1>> \o Zeros(8)

\* dpi_entry of one stream
DualDpiEntry(stream) ==
    Be16(stream.stream_id) \o Be16(stream.vlan_id)
        \o <<stream.priority, stream.src_port, 1, 1>> \o Zeros(24)

\* l2_lookup[offset:offset + len(entry)] = entry, if the entry fits
WriteIfFits(l2_lookup, offset, entry) ==
    IF offset + Len(entry) <= BLen(l2_lookup)
    THEN BWrite(l2_lookup, offset, entry)
    ELSE l2_lookup

RECURSIVE DualCbPoints(_, _, _)
\* l2_lookup after the inner loop over the replication points from i on
DualCbPoints(l2_lookup, stream, i) ==
    LET rps == ReplicationPoints(stream)
    IN  IF i > Len(rps) THEN l2_lookup
        ELSE DualCbPoints(WriteIfFits(l2_lookup, DualCbTableOffset + (rps[i].rp_id * 16),
                                      DualCbEntry(stream, rps[i])),
                          stream, i + 1)

RECURSIVE DualCbTable(_, _, _)
\* l2_lookup after the CB loop over the streams from k on
DualCbTable(l2_lookup, list, k) ==
    IF k > Len(list) THEN l2_lookup
    ELSE DualCbTable(DualCbPoints(l2_lookup, list[k].arg, 1), list, k + 1)

RECURSIVE DualDpiTable(_, _, _)
\* l2_lookup after the DPI loop over the streams from k on
DualDpiTable(l2_lookup, list, k) ==
    IF k > Len(list) THEN l2_lookup
    ELSE DualDpiTable(WriteIfFits(l2_lookup, DualDpiTableOffset + ((k - 1) * 32),
                                  DualDpiEntry(list[k].arg)),
                      list, k + 1)

\* build_switch_firmware() over the stream list (one call per stream)
DualSwitchFirmware(list) ==
    LET header == ToBig(<<27302, 27302>>) \o Be32(1) \o Be32(65536) \o Be32(131072)
                      \o Zeros(48)
        general_params == Be32(1) \o Be32(2047) \o Be32(1) \o Be32(1) \o Be32(1)
        device_config == DualPorts(BWrite(BFill(<<>>, DeviceConfigSize, 0), 0, general_params), 0)
        l2_lookup == DualDpiTable(DualCbTable(BFill(<<>>, L2LookupSize, 0), list, 1), list, 1)
        config == BExtend(<<>>, header) \o device_config \o l2_lookup
    IN  WithSum(BPadTo(config, DualSwitchSize, 255))

BuildMicrocontrollerFirmware ==
    /\ gTool = "dual"
    /\ gPlan = <<>>
    /\ gUc = <<>>
    /\ gUc' = DualUcFirmware(gStreams)
    /\ gError' = "none"
    /\ UNCHANGED <<gTool, gPlan, gStreams, gSwitch, gSeed, gPrev>>
    /\ UNCHANGED genFrame

BuildSwitchFirmware ==
    /\ gTool = "dual"
    /\ gPlan = <<>>
    /\ gSwitch = <<>>
    /\ gSwitch' = DualSwitchFirmware(gStreams)
    /\ gError' = "none"
    /\ UNCHANGED <<gTool, gPlan, gStreams, gUc, gSeed, gPrev>>
    /\ UNCHANGED genFrame

\* tools/fix_crc.py on a saved image: the bytes of the file after fix_crc(path)
BFixCrc(image) ==
    LET n == BLen(image)
    IN  IF n < 4 THEN image
        ELSE LET payload == BTake(image, n - 4)
                 old_crc_bytes == BSlice(image, n - 4, n)
                 new_crc == BCrc32(payload)
             IN  IF FromLittle(old_crc_bytes) = new_crc THEN image
                 ELSE BExtend(payload, ToLittle(new_crc))

\* the plans a program of each kind may have, and its builder when it starts
GenPlans(tool) ==
    IF tool = "correct" THEN CorrectPlans
    ELSE IF tool = "real" THEN RealPlans
    ELSE IF tool = "goldbox" THEN GoldBoxPlans
    ELSE IF tool = "dual" THEN DualPlans
    ELSE {<<>>}

GenStart(tool) ==
    IF tool = "all" THEN AllStreamLists
    ELSE IF tool = "real" THEN {RealEmpty}
    ELSE {<<>>}

GenNext ==
    \/ CorrectAddFrerStream
    \/ CorrectBuildUcFirmware
    \/ CorrectBuildSwitchConfig
    \/ GenerateSwitchBinary
    \/ RealAddFrerStream
    \/ RealGenerateSwitchBinary
    \/ GoldBoxAddTestScenario
    \/ GoldBoxGenerateSwitchBinary
    \/ GoldBoxRunAgain
    \/ DualAddFrerReplicationStream
    \/ BuildMicrocontrollerFirmware
    \/ BuildSwitchFirmware

(***************************************************************************)
(* Register access over SPI: SJA1110Driver._spi_write and _spi_read of     *)
(* src/sja1110_driver.py, and the same two methods of sja1110_upload.py.   *)
(* A value is kept as four 16-bit limbs, the highest first.                *)
(***************************************************************************)
\* (value >> (8 * k)) & 0xFF for k in 0..7
WideByte(value, k) ==
    LET limb == value[4 - (k \div 2)]
    IN  IF k % 2 = 0 THEN limb % 256 ELSE limb \div 256

\* (value << 8) | byte, for a value below 2^56
WideShiftIn(value, byte) ==
    <<((value[1] % 256) * 256) + (value[2] \div 256),
      ((value[2] % 256) * 256) + (value[3] \div 256),
      ((value[3] % 256) * 256) + (value[4] \div 256),
      ((value[4] % 256) * 256) + byte>>

\* addr_bytes
AddressBytes(address) ==
    <<(address \div 65536) % 256, (address \div 256) % 256, address % 256>>

\* a write frame with the data bytes in little-endian order
SpiWriteTxLowFirst(address, value, length) ==
    <<128>> \o AddressBytes(address) \o [i \in 1..length |-> WideByte(value, i - 1)]

\* tx_data of _spi_write(address, value, length)
SpiWriteTx(address, value, length) ==
    <<128>> \o AddressBytes(address)
        \o [i \in 1..length |-> WideByte(value, length - 1 - (i - 1))]

\* tx_data of _spi_read(address, length)
SpiReadTxData(address, length) == <<0>> \o AddressBytes(address) \o Zeros(length)

RECURSIVE SpiDecodeFrom(_, _, _, _)
\* the loop of _spi_read from i on: value = (value << 8) | rx_data[4 + i]
SpiDecodeFrom(value, rx_data, length, i) ==
    IF i >= length THEN value
    ELSE SpiDecodeFrom(WideShiftIn(value, rx_data[4 + i + 1]), rx_data, length, i + 1)

\* the value _spi_read returns for the response rx_data
SpiDecode(rx_data, length) == SpiDecodeFrom(<<0, 0, 0, 0>>, rx_data, length, 0)

\* the registers addressed and the lengths used
SpiAddresses == {0, 1, 256, 65536, 393216, 1193046, 16777215}
SpiLengths == {1, 2, 3, 4, 8}

\* the low `length` bytes of a value
LowBytes(value, length) ==
    IF length = 1 THEN <<0, 0, 0, value[4] % 256>>
    ELSE IF length = 2 THEN <<0, 0, 0, value[4]>>
    ELSE IF length = 3 THEN <<0, 0, value[3] % 256, value[4]>>
    ELSE IF length = 4 THEN <<0, 0, value[3], value[4]>>
    ELSE value

\* the values written: 0, the largest, 0x0102030405060708 and
\* 0x8000000080000001, each cut to the length
SpiValues(length) ==
    { LowBytes(v, length) : v \in { <<0, 0, 0, 0>>, <<65535, 65535, 65535, 65535>>,
                                     <<258, 772, 1286, 1800>>, <<32768, 0, 32768, 1>> } }

\* _spi_write(address, value, length)
SpiWrite ==
    /\ spiLength > 0
    /\ spiTx = <<>>
    /\ spiTx' = SpiWriteTx(spiAddress, spiValue, spiLength)
    /\ UNCHANGED <<spiAddress, spiValue, spiLength, spiReadTx, spiGot>>
    /\ UNCHANGED spiFrame

\* _spi_read(address, length), the device answering with the data bytes of
\* the frame written before, after the four header bytes
SpiRead ==
    /\ spiTx # <<>>
    /\ spiGot = <<>>
    /\ spiReadTx' = SpiReadTxData(spiAddress, spiLength)
    /\ spiGot' = SpiDecode(spiTx, spiLength)
    /\ UNCHANGED <<spiAddress, spiValue, spiLength, spiTx>>
    /\ UNCHANGED spiFrame

SpiNext == SpiWrite \/ SpiRead

(***************************************************************************)
(* src/sja1110_frer.py: one SJA1110FRER, its three tables and              *)
(* generate_configuration, and the register path of                        *)
(* SJA1110CLI.configure_frer (sja1110_cli.py) that writes the generated    *)
(* bytes word by word.                                                     *)
(***************************************************************************)
SEQ_GEN_TABLE_OFFSET == 327680
SEQ_REC_TABLE_OFFSET == 393216
MAX_STREAMS == 1024
MAX_SEQUENCE_HISTORY == 32

\* offset = 0x060000 of configure_frer
FrerRegisterBase == 393216

\* int(c, 16) of one hexadecimal digit
HexDigit(c) ==
    CASE c = "0" -> 0 [] c = "1" -> 1 [] c = "2" -> 2 [] c = "3" -> 3
      [] c = "4" -> 4 [] c = "5" -> 5 [] c = "6" -> 6 [] c = "7" -> 7
      [] c = "8" -> 8 [] c = "9" -> 9
      [] c \in {"a", "A"} -> 10 [] c \in {"b", "B"} -> 11
      [] c \in {"c", "C"} -> 12 [] c \in {"d", "D"} -> 13
      [] c \in {"e", "E"} -> 14 [] c \in {"f", "F"} -> 15

\* bytes.fromhex(mac.replace(':', ''))
MacBytes(mac) ==
    LET digits == SelectSeq(mac, LAMBDA c : c # ":")
    IN  [i \in 1..(Len(digits) \div 2) |->
            (16 * HexDigit(digits[(2 * i) - 1])) + HexDigit(digits[2 * i])]

\* struct.pack takes the value in a field of this many bytes; outside the
\* range it raises struct.error
Packs(value, width) == value >= 0 /\ value < 256 ^ width

\* vlan_priority of StreamIdentification.to_bytes; an absent vlan_id or
\* priority is <<>>, a given one <<value>>
VlanPriority(stream) ==
    LET vlan == IF stream.vlan_id = <<>> THEN 0 ELSE stream.vlan_id[1] % 4096
    IN  IF stream.priority = <<>> THEN vlan ELSE vlan + (stream.priority[1] * 8192)

\* StreamIdentification.to_bytes
StreamToBytes(stream) ==
    Be16(stream.stream_handle)
        \o << IF stream.null_stream_id THEN 1 ELSE 0 >>
        \o (IF stream.source_mac # <<>> THEN MacBytes(stream.source_mac) ELSE Zeros(6))
        \o (IF stream.dest_mac # <<>> THEN MacBytes(stream.dest_mac) ELSE Zeros(6))
        \o Be16(VlanPriority(stream))

\* StreamIdentification.to_bytes raises struct.error
StreamUnpackable(stream) ==
    ~Packs(stream.stream_handle, 2) \/ ~Packs(VlanPriority(stream), 2)

\* SequenceGenerationEntry.to_bytes: struct.pack('>HBBH', ...)
SeqGenToBytes(entry) ==
    Be16(entry.stream_handle) \o <<entry.port_mask>>
        \o << IF entry.enable THEN 128 ELSE 0 >> \o Be16(entry.sequence_number)

\* SequenceGenerationEntry.to_bytes raises struct.error
SeqGenUnpackable(entry) ==
    \/ ~Packs(entry.stream_handle, 2)
    \/ ~Packs(entry.port_mask, 1)
    \/ ~Packs(entry.sequence_number, 2)

\* SequenceRecoveryEntry.to_bytes: struct.pack('>HBBHHH', ...)
SeqRecToBytes(entry) ==
    Be16(entry.stream_handle) \o <<entry.port>>
        \o << (IF entry.enable THEN 128 ELSE 0) + (entry.algorithm % 4) >>
        \o Be16(entry.sequence_number) \o Be16(entry.history_length)
        \o Be16(entry.reset_timeout)

\* SequenceRecoveryEntry.to_bytes raises struct.error
SeqRecUnpackable(entry) ==
    \/ ~Packs(entry.stream_handle, 2)
    \/ ~Packs(entry.port, 1)
    \/ ~Packs(entry.sequence_number, 2)
    \/ ~Packs(entry.history_length, 2)
    \/ ~Packs(entry.reset_timeout, 2)

\* the keys of a dict
Keys(d) == {d[i][1] : i \in 1..Len(d)}

\* d[key], for a key of the dict
Lookup(d, key) == d[CHOOSE i \in 1..Len(d) : d[i][1] = key][2]

RECURSIVE SortedValues(_, _)
\* [value for key, value in sorted(d.items())], over the keys still to come
SortedValues(d, keys) ==
    IF keys = {} THEN <<>>
    ELSE <<Lookup(d, Least(keys))>> \o SortedValues(d, keys \ {Least(keys)})

\* the objects handed to add_stream: the first stream of
\* create_example_frer_config, a stream given by its destination alone, and
\* a stream whose handle is MAX_STREAMS
FrerStreamInputs ==
    { [stream_handle |-> 1, null_stream_id |-> FALSE,
       source_mac |-> <<"0", "0", ":", "1", "1", ":", "2", "2", ":",
                        "3", "3", ":", "4", "4", ":", "5", "5">>,
       dest_mac |-> <<"6", "6", ":", "7", "7", ":", "8", "8", ":",
                      "9", "9", ":", "A", "A", ":", "B", "B">>,
       vlan_id |-> <<100>>, priority |-> <<7>>],
      [stream_handle |-> 2, null_stream_id |-> TRUE,
       source_mac |-> <<>>,
       dest_mac |-> <<"1", "1", ":", "2", "2", ":", "3", "3", ":",
                      "4", "4", ":", "5", "5", ":", "6", "6">>,
       vlan_id |-> <<>>, priority |-> <<>>],
      [stream_handle |-> 1024, null_stream_id |-> FALSE,
       source_mac |-> <<>>, dest_mac |-> <<>>,
       vlan_id |-> <<200>>, priority |-> <<6>>] }

\* the stream handles the other calls are made with; 5 is never added
FrerHandles == {1, 2, 5}

\* the egress_ports lists of configure_replication
FrerPortLists == { <<1, 2>>, <<8>>, <<0, 10>>, <<11>>, <<2, -1>> }

\* ingress_port and history_length of configure_elimination
FrerIngressPorts == {3}
FrerHistoryLengths == {8, 32, 33}

\* the calls create_redundant_path is made with: the two of
\* create_example_frer_config (the second on stream 2) and one on a stream
\* that was never added
FrerPaths ==
    { <<1, <<0, 1, 3>>, <<0, 2, 3>>, 3>>,
      <<2, <<4, 5, 7>>, <<4, 6, 7>>, 7>>,
      <<5, <<0, 1, 3>>, <<0, 2, 3>>, 3>> }

\* a call on the SJA1110FRER is made while it is being filled
FrerOpen == frConfig = <<>>

\* the call and how it ended
FrerCalled(op, args, error) ==
    /\ frLast' = [op |-> op, args |-> args]
    /\ frError' = error

\* the test of add_stream that lets the handle MAX_STREAMS through
HandleAboveMax(stream_handle) == stream_handle > MAX_STREAMS

\* stream_id.stream_handle >= self.MAX_STREAMS
HandleTooLarge(stream_handle) == stream_handle >= MAX_STREAMS

\* add_stream(stream_id)
AddStream ==
    /\ FrerOpen
    /\ \E stream_id \in FrerStreamInputs :
          IF HandleTooLarge(stream_id.stream_handle)
          THEN /\ FrerCalled("add_stream", <<stream_id.stream_handle>>, "ValueError")
               /\ UNCHANGED frStreams
          ELSE /\ frStreams' = DictSet(frStreams, stream_id.stream_handle, stream_id)
               /\ FrerCalled("add_stream", <<stream_id.stream_handle>>, "none")
    /\ UNCHANGED <<frSeqGen, frSeqRec, frConfig, frWords>>
    /\ UNCHANGED frFrame

\* port < 0 or port > 10, for some port of the list
SomePortInvalid(egress_ports) ==
    \E i \in 1..Len(egress_ports) : egress_ports[i] < 0 \/ egress_ports[i] > 10

\* what configure_replication raises ("none": it stores its entry)
ReplicationRefused(streams, stream_handle, egress_ports) ==
    IF stream_handle \notin Keys(streams) THEN "ValueError"
    ELSE IF SomePortInvalid(egress_ports) THEN "ValueError"
    ELSE "none"

\* the entry configure_replication stores
ReplicationEntry(stream_handle, egress_ports) ==
    [stream_handle |-> stream_handle, port_mask |-> PortMaskOr(egress_ports),
     sequence_number |-> 0, enable |-> TRUE]

\* configure_replication(stream_handle, egress_ports)
ConfigureReplication ==
    /\ FrerOpen
    /\ \E stream_handle \in FrerHandles, egress_ports \in FrerPortLists :
          /\ FrerCalled("configure_replication", <<stream_handle, egress_ports>>,
                        ReplicationRefused(frStreams, stream_handle, egress_ports))
          /\ frSeqGen' =
                IF ReplicationRefused(frStreams, stream_handle, egress_ports) = "none"
                THEN DictSet(frSeqGen, stream_handle,
                             ReplicationEntry(stream_handle, egress_ports))
                ELSE frSeqGen
    /\ UNCHANGED <<frStreams, frSeqRec, frConfig, frWords>>
    /\ UNCHANGED frFrame

\* what configure_elimination raises ("none": it stores its entry)
EliminationRefused(streams, stream_handle, history_length) ==
    IF stream_handle \notin Keys(streams) THEN "ValueError"
    ELSE IF history_length > MAX_SEQUENCE_HISTORY THEN "ValueError"
    ELSE "none"

\* the entry configure_elimination stores, algorithm VECTOR_RECOVERY and
\* reset_timeout 100 as by default
EliminationEntry(stream_handle, ingress_port, history_length) ==
    [stream_handle |-> stream_handle, port |-> ingress_port, sequence_number |-> 0,
     history_length |-> history_length, reset_timeout |-> 100, algorithm |-> 0,
     enable |-> TRUE]

\* configure_elimination(stream_handle, ingress_port, history_length=...)
ConfigureElimination ==
    /\ FrerOpen
    /\ \E stream_handle \in FrerHandles, ingress_port \in FrerIngressPorts,
          history_length \in FrerHistoryLengths :
          /\ FrerCalled("configure_elimination",
                        <<stream_handle, ingress_port, history_length>>,
                        EliminationRefused(frStreams, stream_handle, history_length))
          /\ frSeqRec' =
                IF EliminationRefused(frStreams, stream_handle, history_length) = "none"
                THEN DictSet(frSeqRec, stream_handle,
                             EliminationEntry(stream_handle, ingress_port, history_length))
                ELSE frSeqRec
    /\ UNCHANGED <<frStreams, frSeqGen, frConfig, frWords>>
    /\ UNCHANGED frFrame

RECURSIVE Unique(_)
\* list(set(ports)): each port once (the order of a set of small integers
\* is their order)
Unique(ports) ==
    IF ports = <<>> THEN <<>>
    ELSE LET least == Least({ports[i] : i \in 1..Len(ports)})
         IN  <<least>> \o Unique(SelectSeq(ports, LAMBDA p : p # least))

\* replication_ports = list(set(primary_path[0:1] + secondary_path[0:1]))
ReplicationPorts(primary_path, secondary_path) ==
    Unique(SubSeq(primary_path, 1, Min(1, Len(primary_path)))
              \o SubSeq(secondary_path, 1, Min(1, Len(secondary_path))))

\* create_redundant_path(stream_handle, primary_path, secondary_path,
\* dest_port): configure_replication, then configure_elimination with the
\* default history_length of 8
CreateRedundantPath ==
    /\ FrerOpen
    /\ \E call \in FrerPaths :
          LET stream_handle == call[1]
              replication_ports == ReplicationPorts(call[2], call[3])
              refused == ReplicationRefused(frStreams, stream_handle, replication_ports)
              later == EliminationRefused(frStreams, stream_handle, 8)
          IN  /\ FrerCalled("create_redundant_path", call,
                            IF refused # "none" THEN refused ELSE later)
              /\ frSeqGen' =
                    IF refused = "none"
                    THEN DictSet(frSeqGen, stream_handle,
                                 ReplicationEntry(stream_handle, replication_ports))
                    ELSE frSeqGen
              /\ frSeqRec' =
                    IF refused = "none" /\ later = "none"
                    THEN DictSet(frSeqRec, stream_handle,
                                 EliminationEntry(stream_handle, call[4], 8))
                    ELSE frSeqRec
    /\ UNCHANGED <<frStreams, frConfig, frWords>>
    /\ UNCHANGED frFrame

RECURSIVE ExtendAll(_, _)
\* for item in blocks: config.extend(item)
ExtendAll(config, blocks) ==
    IF blocks = <<>> THEN config
    ELSE ExtendAll(BExtend(config, blocks[1]), Tail(blocks))

\* some entry of the tables makes its to_bytes raise struct.error
FrerUnpackable(streams, seq_gen, seq_rec) ==
    \/ \E i \in 1..Len(streams) : StreamUnpackable(streams[i][2])
    \/ \E i \in 1..Len(seq_gen) : SeqGenUnpackable(seq_gen[i][2])
    \/ \E i \in 1..Len(seq_rec) : SeqRecUnpackable(seq_rec[i][2])

\* the bytes generate_configuration returns
FrerConfiguration(streams, seq_gen, seq_rec) ==
    LET ids == SortedValues(streams, Keys(streams))
        gens == SortedValues(seq_gen, Keys(seq_gen))
        recs == SortedValues(seq_rec, Keys(seq_rec))
        enabled == BExtend(<<>>, Be32(1))
        identified == ExtendAll(enabled, [i \in 1..Len(ids) |-> StreamToBytes(ids[i])])
        generation == ExtendAll(BPadTo(identified, SEQ_GEN_TABLE_OFFSET, 0),
                                [i \in 1..Len(gens) |-> SeqGenToBytes(gens[i])])
    IN  ExtendAll(BPadTo(generation, SEQ_REC_TABLE_OFFSET, 0),
                  [i \in 1..Len(recs) |-> SeqRecToBytes(recs[i])])

\* generate_configuration()
GenerateConfiguration ==
    /\ FrerOpen
    /\ IF FrerUnpackable(frStreams, frSeqGen, frSeqRec)
       THEN /\ FrerCalled("generate_configuration", <<>>, "struct.error")
            /\ UNCHANGED frConfig
       ELSE /\ FrerCalled("generate_configuration", <<>>, "none")
            /\ frConfig' = FrerConfiguration(frStreams, frSeqGen, frSeqRec)
    /\ UNCHANGED <<frStreams, frSeqGen, frSeqRec, frWords>>
    /\ UNCHANGED frFrame

\* int.from_bytes(chunk, 'big') of a chunk of up to 4 bytes
FromBytesBig(chunk) == SpiDecode(Zeros(4) \o chunk, Len(chunk))

\* value = int.from_bytes(config_data[i:i+4], 'big') and
\* write_register(offset + i, value): count writes of equal chunks at
\* successive word addresses, tx the bytes of the first of them on the bus
RegisterWrite(address, count, chunk) ==
    [address |-> address, count |-> count,
     tx |-> SpiWriteTx(address, FromBytesBig(chunk), 4)]

RECURSIVE WriteBytes(_, _, _)
\* the loop of configure_frer over explicit bytes: a write per 4 bytes and
\* one for what is left at the end of the data
WriteBytes(writes, address, bytes) ==
    IF bytes = <<>> THEN writes
    ELSE WriteBytes(Append(writes, RegisterWrite(address, 1, SubSeq(bytes, 1, Min(4, Len(bytes))))),
                    address + 4, SubSeq(bytes, Min(4, Len(bytes)) + 1, Len(bytes)))

RECURSIVE WritePieces(_, _, _, _)
\* the loop of configure_frer over config_data[i:i+4], i = 0, 4, ...: the
\* bytes of the pieces come in order, `carry` the bytes of a chunk that is
\* not yet whole; a run of one repeated byte makes a run of equal writes
WritePieces(writes, address, carry, pieces) ==
    IF pieces = <<>> THEN WriteBytes(writes, address, carry)
    ELSE LET piece == pieces[1]
             uniform == Len(piece.block) = 1 /\ piece.times >= 8
             bytes == carry \o (IF uniform THEN <<>> ELSE BSlice(<<piece>>, 0, PieceLen(piece)))
             whole == 4 * (Len(bytes) \div 4)
             fill == IF carry = <<>> THEN 0 ELSE 4 - Len(carry)
             words == (piece.times - fill) \div 4
             b == piece.block[1]
         IN  IF ~uniform
             THEN WritePieces(WriteBytes(writes, address, SubSeq(bytes, 1, whole)),
                              address + whole,
                              SubSeq(bytes, whole + 1, Len(bytes)), Tail(pieces))
             ELSE WritePieces(
                      Append(WriteBytes(writes, address, carry \o [i \in 1..fill |-> b]),
                             RegisterWrite(address + (IF fill = 0 THEN 0 ELSE 4),
                                           words, <<b, b, b, b>>)),
                      address + (IF fill = 0 THEN 0 ELSE 4) + (4 * words),
                      [i \in 1..((piece.times - fill) % 4) |-> b], Tail(pieces))

\* the register path of configure_frer: config_data = generate_configuration()
\* and the loop of write_register calls
ConfigureFrerWrite ==
    /\ frConfig # <<>>
    /\ frWords = <<>>
    /\ frWords' = WritePieces(<<>>, FrerRegisterBase, <<>>, frConfig)
    /\ FrerCalled("configure_frer", <<>>, "none")
    /\ UNCHANGED <<frStreams, frSeqGen, frSeqRec, frConfig>>
    /\ UNCHANGED frFrame

FrerNext ==
    \/ AddStream
    \/ ConfigureReplication
    \/ ConfigureElimination
    \/ CreateRedundantPath
    \/ GenerateConfiguration
    \/ ConfigureFrerWrite

(***************************************************************************)
(* Specifications: one per tool, the other tools' state left alone.        *)
(***************************************************************************)
\* fix_crc.py run on any file of the bounded set
CrcInit ==
    /\ fcFile \in Files
    /\ fcPrev = fcFile
    /\ fcWrote = FALSE
    /\ fcOutcome = "none"
    /\ fcRun = 0
    /\ fcWrites = 0
    /\ bSections = <<>>
    /\ bFile = <<>>
    /\ bBuilt = FALSE
    /\ bValid = "none"
    /\ flPc = "idle"
    /\ flError = "none"
    /\ flFile = <<>>
    /\ flTx = <<>>
    /\ flRx = <<>>
    /\ flDev = <<>>
    /\ flBursts = 0
    /\ flResp = <<>>
    /\ flFlashResp = NoResponse
    /\ flSent = 0
    /\ flHeard = <<>>
    /\ runTool = "none"
    /\ runInterface = "none"
    /\ runArgs = <<>>
    /\ runPc = "idle"
    /\ runStep = 0
    /\ runAttrs = {}
    /\ runOpen = {}
    /\ runOpened = {}
    /\ runPending = FALSE
    /\ runExit = "none"
    /\ imUc = <<>>
    /\ imSwitch = <<>>
    /\ imUcOk = "none"
    /\ imSwitchOk = "none"
    /\ imPairOk = "none"
    /\ upInterface = "none"
    /\ upData = <<>>
    /\ upFile = <<>>
    /\ upTrigger = FALSE
    /\ upFrames = <<>>
    /\ upDone = FALSE
    /\ upSerial = <<>>
    /\ ucFile = <<>>
    /\ ucTrigger = FALSE
    /\ ucFrames = <<>>
    /\ ucDone = FALSE
    /\ upProgress = <<>>
    /\ ucProgress = <<>>
    /\ gTool = "none"
    /\ gPlan = <<>>
    /\ gStreams = <<>>
    /\ gSwitch = <<>>
    /\ gUc = <<>>
    /\ gError = "none"
    /\ gSeed = 0
    /\ gPrev = <<>>
    /\ spiAddress = 0
    /\ spiValue = <<0, 0, 0, 0>>
    /\ spiLength = 0
    /\ spiTx = <<>>
    /\ spiReadTx = <<>>
    /\ spiGot = <<>>
    /\ frStreams = <<>>
    /\ frSeqGen = <<>>
    /\ frSeqRec = <<>>
    /\ frError = "none"
    /\ frConfig = <<>>
    /\ frWords = <<>>
    /\ frLast = [op |-> "none", args |-> <<>>]

SpecCrc == CrcInit /\ [][CrcNext]_vars

\* SJA1110FirmwareBuilder(): no section yet, nothing built
BldInit ==
    /\ bSections = <<>>
    /\ bFile = <<>>
    /\ bBuilt = FALSE
    /\ bValid = "none"
    /\ fcFile = <<>>
    /\ fcPrev = <<>>
    /\ fcWrote = FALSE
    /\ fcOutcome = "none"
    /\ fcRun = 0
    /\ fcWrites = 0
    /\ flPc = "idle"
    /\ flError = "none"
    /\ flFile = <<>>
    /\ flTx = <<>>
    /\ flRx = <<>>
    /\ flDev = <<>>
    /\ flBursts = 0
    /\ flResp = <<>>
    /\ flFlashResp = NoResponse
    /\ flSent = 0
    /\ flHeard = <<>>
    /\ runTool = "none"
    /\ runInterface = "none"
    /\ runArgs = <<>>
    /\ runPc = "idle"
    /\ runStep = 0
    /\ runAttrs = {}
    /\ runOpen = {}
    /\ runOpened = {}
    /\ runPending = FALSE
    /\ runExit = "none"
    /\ imUc = <<>>
    /\ imSwitch = <<>>
    /\ imUcOk = "none"
    /\ imSwitchOk = "none"
    /\ imPairOk = "none"
    /\ upInterface = "none"
    /\ upData = <<>>
    /\ upFile = <<>>
    /\ upTrigger = FALSE
    /\ upFrames = <<>>
    /\ upDone = FALSE
    /\ upSerial = <<>>
    /\ ucFile = <<>>
    /\ ucTrigger = FALSE
    /\ ucFrames = <<>>
    /\ ucDone = FALSE
    /\ upProgress = <<>>
    /\ ucProgress = <<>>
    /\ gTool = "none"
    /\ gPlan = <<>>
    /\ gStreams = <<>>
    /\ gSwitch = <<>>
    /\ gUc = <<>>
    /\ gError = "none"
    /\ gSeed = 0
    /\ gPrev = <<>>
    /\ spiAddress = 0
    /\ spiValue = <<0, 0, 0, 0>>
    /\ spiLength = 0
    /\ spiTx = <<>>
    /\ spiReadTx = <<>>
    /\ spiGot = <<>>
    /\ frStreams = <<>>
    /\ frSeqGen = <<>>
    /\ frSeqRec = <<>>
    /\ frError = "none"
    /\ frConfig = <<>>
    /\ frWords = <<>>
    /\ frLast = [op |-> "none", args |-> <<>>]

SpecBuild == BldInit /\ [][BldNext]_vars

\* flash_firmware called once, on any of the files, over a serial port
FlashInit ==
    /\ flPc = "idle"
    /\ flError = "none"
    /\ flFile \in FlashFiles
    /\ flTx = <<>>
    /\ flRx = <<>>
    /\ flDev = <<>>
    /\ flBursts = 0
    /\ flResp = <<>>
    /\ flFlashResp = NoResponse
    /\ flSent = 0
    /\ flHeard = <<>>
    /\ fcFile = <<>>
    /\ fcPrev = <<>>
    /\ fcWrote = FALSE
    /\ fcOutcome = "none"
    /\ fcRun = 0
    /\ fcWrites = 0
    /\ bSections = <<>>
    /\ bFile = <<>>
    /\ bBuilt = FALSE
    /\ bValid = "none"
    /\ runTool = "none"
    /\ runInterface = "none"
    /\ runArgs = <<>>
    /\ runPc = "idle"
    /\ runStep = 0
    /\ runAttrs = {}
    /\ runOpen = {}
    /\ runOpened = {}
    /\ runPending = FALSE
    /\ runExit = "none"
    /\ imUc = <<>>
    /\ imSwitch = <<>>
    /\ imUcOk = "none"
    /\ imSwitchOk = "none"
    /\ imPairOk = "none"
    /\ upInterface = "none"
    /\ upData = <<>>
    /\ upFile = <<>>
    /\ upTrigger = FALSE
    /\ upFrames = <<>>
    /\ upDone = FALSE
    /\ upSerial = <<>>
    /\ ucFile = <<>>
    /\ ucTrigger = FALSE
    /\ ucFrames = <<>>
    /\ ucDone = FALSE
    /\ upProgress = <<>>
    /\ ucProgress = <<>>
    /\ gTool = "none"
    /\ gPlan = <<>>
    /\ gStreams = <<>>
    /\ gSwitch = <<>>
    /\ gUc = <<>>
    /\ gError = "none"
    /\ gSeed = 0
    /\ gPrev = <<>>
    /\ spiAddress = 0
    /\ spiValue = <<0, 0, 0, 0>>
    /\ spiLength = 0
    /\ spiTx = <<>>
    /\ spiReadTx = <<>>
    /\ spiGot = <<>>
    /\ frStreams = <<>>
    /\ frSeqGen = <<>>
    /\ frSeqRec = <<>>
    /\ frError = "none"
    /\ frConfig = <<>>
    /\ frWords = <<>>
    /\ frLast = [op |-> "none", args |-> <<>>]

SpecFlash == FlashInit /\ [][FlashNext]_vars

\* one run of either tool, from any of the command lines
RunInit ==
    /\ \E cfg \in RunConfigs :
          /\ runTool = cfg.tool
          /\ runInterface = cfg.interface
          /\ runArgs = cfg.args
    /\ runPc = "start"
    /\ runStep = 0
    /\ runAttrs = {}
    /\ runOpen = {}
    /\ runOpened = {}
    /\ runPending = FALSE
    /\ runExit = "none"
    /\ fcFile = <<>>
    /\ fcPrev = <<>>
    /\ fcWrote = FALSE
    /\ fcOutcome = "none"
    /\ fcRun = 0
    /\ fcWrites = 0
    /\ bSections = <<>>
    /\ bFile = <<>>
    /\ bBuilt = FALSE
    /\ bValid = "none"
    /\ flPc = "idle"
    /\ flError = "none"
    /\ flFile = <<>>
    /\ flTx = <<>>
    /\ flRx = <<>>
    /\ flDev = <<>>
    /\ flBursts = 0
    /\ flResp = <<>>
    /\ flFlashResp = NoResponse
    /\ flSent = 0
    /\ flHeard = <<>>
    /\ imUc = <<>>
    /\ imSwitch = <<>>
    /\ imUcOk = "none"
    /\ imSwitchOk = "none"
    /\ imPairOk = "none"
    /\ upInterface = "none"
    /\ upData = <<>>
    /\ upFile = <<>>
    /\ upTrigger = FALSE
    /\ upFrames = <<>>
    /\ upDone = FALSE
    /\ upSerial = <<>>
    /\ ucFile = <<>>
    /\ ucTrigger = FALSE
    /\ ucFrames = <<>>
    /\ ucDone = FALSE
    /\ upProgress = <<>>
    /\ ucProgress = <<>>
    /\ gTool = "none"
    /\ gPlan = <<>>
    /\ gStreams = <<>>
    /\ gSwitch = <<>>
    /\ gUc = <<>>
    /\ gError = "none"
    /\ gSeed = 0
    /\ gPrev = <<>>
    /\ spiAddress = 0
    /\ spiValue = <<0, 0, 0, 0>>
    /\ spiLength = 0
    /\ spiTx = <<>>
    /\ spiReadTx = <<>>
    /\ spiGot = <<>>
    /\ frStreams = <<>>
    /\ frSeqGen = <<>>
    /\ frSeqRec = <<>>
    /\ frError = "none"
    /\ frConfig = <<>>
    /\ frWords = <<>>
    /\ frLast = [op |-> "none", args |-> <<>>]

SpecRun == RunInit /\ [][RunNext]_vars

\* the verifiers and the uploader, on any pair of the images and with any
\* interface
ImageInit ==
    /\ imUc \in UcImages
    /\ imSwitch \in SwitchImages
    /\ imUcOk = "none"
    /\ imSwitchOk = "none"
    /\ imPairOk = "none"
    /\ upInterface \in {"sysfs", "spi", "serial"}
    /\ upData = <<>>
    /\ upFile = <<>>
    /\ upTrigger = FALSE
    /\ upFrames = <<>>
    /\ upDone = FALSE
    /\ upSerial = <<>>
    /\ ucFile = <<>>
    /\ ucTrigger = FALSE
    /\ ucFrames = <<>>
    /\ ucDone = FALSE
    /\ upProgress = <<>>
    /\ ucProgress = <<>>
    /\ gTool = "none"
    /\ gPlan = <<>>
    /\ gStreams = <<>>
    /\ gSwitch = <<>>
    /\ gUc = <<>>
    /\ gError = "none"
    /\ gSeed = 0
    /\ gPrev = <<>>
    /\ fcFile = <<>>
    /\ fcPrev = <<>>
    /\ fcWrote = FALSE
    /\ fcOutcome = "none"
    /\ fcRun = 0
    /\ fcWrites = 0
    /\ bSections = <<>>
    /\ bFile = <<>>
    /\ bBuilt = FALSE
    /\ bValid = "none"
    /\ flPc = "idle"
    /\ flError = "none"
    /\ flFile = <<>>
    /\ flTx = <<>>
    /\ flRx = <<>>
    /\ flDev = <<>>
    /\ flBursts = 0
    /\ flResp = <<>>
    /\ flFlashResp = NoResponse
    /\ flSent = 0
    /\ flHeard = <<>>
    /\ runTool = "none"
    /\ runInterface = "none"
    /\ runArgs = <<>>
    /\ runPc = "idle"
    /\ runStep = 0
    /\ runAttrs = {}
    /\ runOpen = {}
    /\ runOpened = {}
    /\ runPending = FALSE
    /\ runExit = "none"
    /\ spiAddress = 0
    /\ spiValue = <<0, 0, 0, 0>>
    /\ spiLength = 0
    /\ spiTx = <<>>
    /\ spiReadTx = <<>>
    /\ spiGot = <<>>
    /\ frStreams = <<>>
    /\ frSeqGen = <<>>
    /\ frSeqRec = <<>>
    /\ frError = "none"
    /\ frConfig = <<>>
    /\ frWords = <<>>
    /\ frLast = [op |-> "none", args |-> <<>>]

SpecImage == ImageInit /\ [][ImageNext]_vars

\* one execution of a builder program on any plan of its bounded set
GenInit ==
    /\ gTool \in {"correct", "all", "real", "goldbox", "dual"}
    /\ gPlan \in GenPlans(gTool)
    /\ gStreams \in GenStart(gTool)
    /\ gSwitch = <<>>
    /\ gUc = <<>>
    /\ gError = "none"
    /\ gSeed \in (IF gTool = "goldbox" THEN HashSeeds ELSE {0})
    /\ gPrev = <<>>
    /\ imUc = <<>>
    /\ imSwitch = <<>>
    /\ imUcOk = "none"
    /\ imSwitchOk = "none"
    /\ imPairOk = "none"
    /\ upInterface = "none"
    /\ upData = <<>>
    /\ upFile = <<>>
    /\ upTrigger = FALSE
    /\ upFrames = <<>>
    /\ upDone = FALSE
    /\ upSerial = <<>>
    /\ ucFile = <<>>
    /\ ucTrigger = FALSE
    /\ ucFrames = <<>>
    /\ ucDone = FALSE
    /\ upProgress = <<>>
    /\ ucProgress = <<>>
    /\ fcFile = <<>>
    /\ fcPrev = <<>>
    /\ fcWrote = FALSE
    /\ fcOutcome = "none"
    /\ fcRun = 0
    /\ fcWrites = 0
    /\ bSections = <<>>
    /\ bFile = <<>>
    /\ bBuilt = FALSE
    /\ bValid = "none"
    /\ flPc = "idle"
    /\ flError = "none"
    /\ flFile = <<>>
    /\ flTx = <<>>
    /\ flRx = <<>>
    /\ flDev = <<>>
    /\ flBursts = 0
    /\ flResp = <<>>
    /\ flFlashResp = NoResponse
    /\ flSent = 0
    /\ flHeard = <<>>
    /\ runTool = "none"
    /\ runInterface = "none"
    /\ runArgs = <<>>
    /\ runPc = "idle"
    /\ runStep = 0
    /\ runAttrs = {}
    /\ runOpen = {}
    /\ runOpened = {}
    /\ runPending = FALSE
    /\ runExit = "none"
    /\ spiAddress = 0
    /\ spiValue = <<0, 0, 0, 0>>
    /\ spiLength = 0
    /\ spiTx = <<>>
    /\ spiReadTx = <<>>
    /\ spiGot = <<>>
    /\ frStreams = <<>>
    /\ frSeqGen = <<>>
    /\ frSeqRec = <<>>
    /\ frError = "none"
    /\ frConfig = <<>>
    /\ frWords = <<>>
    /\ frLast = [op |-> "none", args |-> <<>>]

SpecGen == GenInit /\ [][GenNext]_vars

\* one register written and read back, for any address, length and value of
\* the bounded sets
SpiInit ==
    /\ gTool = "none"
    /\ gPlan = <<>>
    /\ gStreams = <<>>
    /\ gSwitch = <<>>
    /\ gUc = <<>>
    /\ gError = "none"
    /\ gSeed = 0
    /\ gPrev = <<>>
    /\ imUc = <<>>
    /\ imSwitch = <<>>
    /\ imUcOk = "none"
    /\ imSwitchOk = "none"
    /\ imPairOk = "none"
    /\ upInterface = "none"
    /\ upData = <<>>
    /\ upFile = <<>>
    /\ upTrigger = FALSE
    /\ upFrames = <<>>
    /\ upDone = FALSE
    /\ upSerial = <<>>
    /\ ucFile = <<>>
    /\ ucTrigger = FALSE
    /\ ucFrames = <<>>
    /\ ucDone = FALSE
    /\ upProgress = <<>>
    /\ ucProgress = <<>>
    /\ fcFile = <<>>
    /\ fcPrev = <<>>
    /\ fcWrote = FALSE
    /\ fcOutcome = "none"
    /\ fcRun = 0
    /\ fcWrites = 0
    /\ bSections = <<>>
    /\ bFile = <<>>
    /\ bBuilt = FALSE
    /\ bValid = "none"
    /\ flPc = "idle"
    /\ flError = "none"
    /\ flFile = <<>>
    /\ flTx = <<>>
    /\ flRx = <<>>
    /\ flDev = <<>>
    /\ flBursts = 0
    /\ flResp = <<>>
    /\ flFlashResp = NoResponse
    /\ flSent = 0
    /\ flHeard = <<>>
    /\ runTool = "none"
    /\ runInterface = "none"
    /\ runArgs = <<>>
    /\ runPc = "idle"
    /\ runStep = 0
    /\ runAttrs = {}
    /\ runOpen = {}
    /\ runOpened = {}
    /\ runPending = FALSE
    /\ runExit = "none"
    /\ spiAddress \in SpiAddresses
    /\ spiLength \in SpiLengths
    /\ spiValue \in SpiValues(spiLength)
    /\ spiTx = <<>>
    /\ spiReadTx = <<>>
    /\ spiGot = <<>>
    /\ frStreams = <<>>
    /\ frSeqGen = <<>>
    /\ frSeqRec = <<>>
    /\ frError = "none"
    /\ frConfig = <<>>
    /\ frWords = <<>>
    /\ frLast = [op |-> "none", args |-> <<>>]

SpecSpi == SpiInit /\ [][SpiNext]_vars

\* a new SJA1110FRER with empty tables
FrerInit ==
    /\ gTool = "none"
    /\ gPlan = <<>>
    /\ gStreams = <<>>
    /\ gSwitch = <<>>
    /\ gUc = <<>>
    /\ gError = "none"
    /\ gSeed = 0
    /\ gPrev = <<>>
    /\ imUc = <<>>
    /\ imSwitch = <<>>
    /\ imUcOk = "none"
    /\ imSwitchOk = "none"
    /\ imPairOk = "none"
    /\ upInterface = "none"
    /\ upData = <<>>
    /\ upFile = <<>>
    /\ upTrigger = FALSE
    /\ upFrames = <<>>
    /\ upDone = FALSE
    /\ upSerial = <<>>
    /\ ucFile = <<>>
    /\ ucTrigger = FALSE
    /\ ucFrames = <<>>
    /\ ucDone = FALSE
    /\ upProgress = <<>>
    /\ ucProgress = <<>>
    /\ fcFile = <<>>
    /\ fcPrev = <<>>
    /\ fcWrote = FALSE
    /\ fcOutcome = "none"
    /\ fcRun = 0
    /\ fcWrites = 0
    /\ bSections = <<>>
    /\ bFile = <<>>
    /\ bBuilt = FALSE
    /\ bValid = "none"
    /\ flPc = "idle"
    /\ flError = "none"
    /\ flFile = <<>>
    /\ flTx = <<>>
    /\ flRx = <<>>
    /\ flDev = <<>>
    /\ flBursts = 0
    /\ flResp = <<>>
    /\ flFlashResp = NoResponse
    /\ flSent = 0
    /\ flHeard = <<>>
    /\ runTool = "none"
    /\ runInterface = "none"
    /\ runArgs = <<>>
    /\ runPc = "idle"
    /\ runStep = 0
    /\ runAttrs = {}
    /\ runOpen = {}
    /\ runOpened = {}
    /\ runPending = FALSE
    /\ runExit = "none"
    /\ spiAddress = 0
    /\ spiLength = 0
    /\ spiValue = <<0, 0, 0, 0>>
    /\ spiTx = <<>>
    /\ spiReadTx = <<>>
    /\ spiGot = <<>>
    /\ frStreams = <<>>
    /\ frSeqGen = <<>>
    /\ frSeqRec = <<>>
    /\ frError = "none"
    /\ frConfig = <<>>
    /\ frWords = <<>>
    /\ frLast = [op |-> "none", args |-> <<>>]

SpecFrer == FrerInit /\ [][FrerNext]_vars


(***************************************************************************)
(* Properties of tools/fix_crc.py, checked under SpecCrc.                  *)
(***************************************************************************)
\* C1: fix_crc is idempotent.  Once fix_crc has run on a file of at least 4
\* bytes, a further call on the unedited file writes nothing and leaves the
\* file byte-identical, so that a run of calls writes the file at most once.
FixCrcIdempotent ==
    (fcRun >= 2 /\ Len(fcFile) >= 4) =>
        /\ ~fcWrote
        /\ fcFile = fcPrev
        /\ fcWrites <= 1

\* C1 witness: a first call rewrote the trailer and a second call has run.
FixCrcSecondCall ==
    fcRun = 2 /\ Len(fcFile) >= 4 /\ fcWrites = 1 /\ fcOutcome = "returned"

\* C2: after fix_crc on a file of at least 4 bytes the last 4 bytes are the
\* CRC32 of the preceding bytes, least significant byte first, the length
\* and every byte before the trailer are unchanged, and a file whose
\* trailer was current already is not written.
FixCrcFrame ==
    (fcOutcome = "returned") =>
        LET n == Len(fcFile)
            c == Crc32(SubSeq(fcFile, 1, n - 4))
        IN  /\ n = Len(fcPrev)
            /\ \A i \in 1..(n - 4) : fcFile[i] = fcPrev[i]
            /\ fcFile[n - 3] = c[2] % 256
            /\ fcFile[n - 2] = c[2] \div 256
            /\ fcFile[n - 1] = c[1] % 256
            /\ fcFile[n] = c[1] \div 256
            /\ (fcWrote <=> fcFile # fcPrev)

\* C2 witness: a call that found a stale trailer and rewrote it.
FixCrcRewrote ==
    fcOutcome = "returned" /\ fcWrote /\ fcFile # fcPrev /\ Len(fcFile) > 4

\* C3 as stated: fix_crc returns normally for a file of any length.
FixCrcTotal == fcOutcome # "ValueError"

\* C3 amended: fix_crc returns normally exactly for the files of at least
\* 4 bytes and raises ValueError for the shorter ones; a call that raises
\* writes nothing, and a call that returns changes at most the 4 trailer
\* bytes.
FixCrcTotalFromFourBytes ==
    (fcRun > 0) =>
        /\ (fcOutcome = "returned" <=> Len(fcPrev) >= 4)
        /\ (fcOutcome = "ValueError" <=> Len(fcPrev) < 4)
        /\ (fcOutcome = "ValueError" => ~fcWrote /\ fcFile = fcPrev)
        /\ (fcOutcome = "returned" =>
               /\ Len(fcFile) = Len(fcPrev)
               /\ Payload(fcFile) = Payload(fcPrev))

\* C3 witness: fix_crc has raised on a 3-byte file, and left it alone.
FixCrcRaised ==
    fcOutcome = "ValueError" /\ Len(fcFile) = 3 /\ fcRun = 1

(***************************************************************************)
(* Properties of the firmware builder, checked under SpecBuild.            *)
(***************************************************************************)
\* C4: round trip of the builder.  Whatever sections were added,
\* validate_firmware returns True on the file build_firmware wrote.
BuildValidateRoundTrip == bValid # "False"

(***************************************************************************)
(* Properties of the serial flash, checked under SpecFlash.                *)
(***************************************************************************)
\* the firmware data chunks written to the serial port so far, in order
ChunksWritten == SelectSeq(flTx, LAMBDA w : w.kind = "chunk")

RECURSIVE Joined(_)
\* the bytes of a sequence of writes, one after the other
Joined(writes) ==
    IF writes = <<>> THEN <<>> ELSE writes[1].data \o Joined(Tail(writes))

\* the download loop has run to the end of the file
Downloaded ==
    \/ flPc \in {"completion", "reboot", "done"}
    \/ flPc = "failed" /\ flError \in {"Flash failed", "Flash timeout"}

\* C5: no firmware data chunk is written to the serial port unless the
\* response received to the 'flash <size>' command contained the token
\* 'ready'; a response without it, such as 'error: bad size', ends the
\* operation with the RuntimeError of the flash preparation and no chunk sent.
FlashNeedsReady ==
    /\ (ChunksWritten # <<>>) =>
          /\ flFlashResp # NoResponse
          /\ Contains(Lower(flFlashResp), ReadyToken)
    /\ (flFlashResp # NoResponse /\ ~Contains(Lower(flFlashResp), ReadyToken)) =>
          /\ flPc = "failed"
          /\ flError = "Flash preparation failed"
          /\ ChunksWritten = <<>>

\* C5 witness: the device answered 'error: bad size' to the flash command
\* and flash_firmware has failed without sending a chunk.
FlashRefusedBadSize ==
    /\ flFlashResp = <<"e", "r", "r", "o", "r", ":", " ", "b", "a", "d", " ",
                       "s", "i", "z", "e">>
    /\ flPc = "failed"
    /\ flError = "Flash preparation failed"
    /\ ChunksWritten = <<>>

\* C6: the chunks written are each of 1 to 1024 bytes and, one after the
\* other, are the part of the file read so far; once the download loop has
\* ended there are exactly ceil(n/1024) of them for a file of n bytes and
\* together they are the file.
FlashChunksAreFile ==
    /\ \A i \in 1..Len(ChunksWritten) :
          Len(ChunksWritten[i].data) \in 1..1024
    /\ Joined(ChunksWritten) = SubSeq(flFile, 1, flSent)
    /\ Downloaded =>
          /\ Len(ChunksWritten) = (Len(flFile) + 1023) \div 1024
          /\ Joined(ChunksWritten) = flFile

\* C6 witness: a file of 1025 bytes has gone out in two chunks, the second
\* of one byte.
FlashTwoChunks ==
    /\ Downloaded
    /\ Len(flFile) = 1025
    /\ Len(ChunksWritten) = 2
    /\ Len(ChunksWritten[2].data) = 1

\* the place of the first occurrence of a token in a text (past the end of
\* the text: none)
FirstAt(text, token) ==
    IF Contains(text, token)
    THEN Least({i \in 1..(Len(text) - Len(token) + 1) :
                   SubSeq(text, i, i + Len(token) - 1) = token})
    ELSE Len(text) + 1

\* C7: once the last chunk is sent, if the bytes the completion loop reads
\* within its window hold the token 'success' with no 'error' before it,
\* flash_firmware ends in Done, however those bytes were split across reads.
FlashDoneOnSuccess ==
    LET heard == Lower(Decode(flHeard))
    IN  (/\ flPc \in {"done", "failed"}
         /\ Downloaded
         /\ Contains(heard, SuccessToken)
         /\ FirstAt(heard, SuccessToken) < FirstAt(heard, ErrorToken))
            => flPc = "done"

\* a write is the line send_command makes of a command text
IsCommand(write, text) ==
    /\ write.kind = "command"
    /\ write.data = Encode(text \o <<"\r", "\n">>)

\* C23: a file validate_firmware rejects ends flash_firmware with nothing
\* written to the device; for an accepted file the writes are, in this order,
\* the 'bootloader' command, the 'flash <size>' command, the data chunks and,
\* only after the completion loop heard success, the 'reboot' command; a
\* failed step is followed by no write and the completion loop reads only
\* after the download.
FlashStepsInOrder ==
    /\ ~ValidateFirmware(flFile) =>
          /\ flTx = <<>>
          /\ flPc \in {"idle", "failed"}
          /\ (flPc = "failed") => (flError = "Invalid firmware file")
    /\ (Len(flTx) >= 1) => IsCommand(flTx[1], <<"b", "o", "o", "t", "l", "o", "a", "d", "e", "r">>)
    /\ (Len(flTx) >= 2) =>
          IsCommand(flTx[2], <<"f", "l", "a", "s", "h", " ">> \o Decimal(Len(flFile)))
    /\ \A i \in 3..Len(flTx) :
          \/ flTx[i].kind = "chunk"
          \/ /\ i = Len(flTx)
             /\ IsCommand(flTx[i], <<"r", "e", "b", "o", "o", "t">>)
             /\ flPc \in {"reboot", "done"}
             /\ Contains(Lower(Decode(flHeard)), SuccessToken)
    /\ (flPc = "bootloader") => (Len(flTx) = 1)
    /\ (flPc = "flash") => (Len(flTx) = 2)
    /\ (flPc = "failed" /\ flError = "Failed to enter bootloader mode") => (Len(flTx) = 1)
    /\ (flPc = "failed" /\ flError = "Flash preparation failed") => (Len(flTx) = 2)
    /\ (flPc = "failed" /\ flError \in {"Flash failed", "Flash timeout"}) =>
          (flTx[Len(flTx)].kind = "chunk")
    /\ (ChunksWritten # <<>>) => (flPc \notin {"idle", "bootloader", "flash"})
    /\ (flHeard # <<>>) => (Downloaded /\ Joined(ChunksWritten) = flFile)

\* C23 witness: a file with a wrong checksum was refused and nothing was
\* written to the device.
FlashBlockedByValidation ==
    /\ flFile = [ValidHead EXCEPT ![70] = 0]
    /\ flPc = "failed"
    /\ flError = "Invalid firmware file"
    /\ flTx = <<>>

(***************************************************************************)
(* Properties of the transport handles, checked under SpecRun.             *)
(***************************************************************************)
\* C8: every transport handle that was opened is closed on every exit path
\* of a CLI or upload-tool run: when main() has been left, by return or by
\* exception, no handle is open.
HandlesClosedOnExit == (runPc = "exited") => (runOpen = {})

(***************************************************************************)
(* Properties of the image verifiers and of the uploader, checked under    *)
(* SpecImage.                                                              *)
(***************************************************************************)
\* the image begins with the marker and its last 4 bytes are not the
\* little-endian CRC32 of the bytes before them
StaleTrailer(data) ==
    /\ StartsWith(data, IMAGE_VALID_MARKER)
    /\ Len(data) >= 12
    /\ SubSeq(data, Len(data) - 3, Len(data))
          # ToLittle(Crc32(SubSeq(data, 1, Len(data) - 4)))

\* C9: an image that begins with the marker but has a stale trailer is
\* reported invalid by verify_uc_firmware, by verify_switch_config and, as
\* either of its two arguments, by validate_firmware.
StaleTrailerRejected ==
    /\ StaleTrailer(imUc) => imUcOk # "True"
    /\ StaleTrailer(imSwitch) => imSwitchOk # "True"
    /\ (StaleTrailer(imUc) \/ StaleTrailer(imSwitch)) => imPairOk # "True"

\* the image is a correct switch image but for its first 8 bytes: with the
\* marker in their place it has the device id at offset 8 and a current
\* trailer
CorrectButMarker(data) ==
    /\ Len(data) >= 16
    /\ ~StartsWith(data, IMAGE_VALID_MARKER)
    /\ LET whole == IMAGE_VALID_MARKER \o SubSeq(data, 9, Len(data))
       IN  /\ SubSeq(whole, 9, 12) = <<14, 3, 0, 183>>
           /\ SubSeq(whole, Len(whole) - 3, Len(whole))
                 = ToLittle(Crc32(SubSeq(whole, 1, Len(whole) - 4)))

RECURSIVE FrameData(_)
\* the data bytes of a sequence of SPI write frames, one after the other
FrameData(frames) ==
    IF frames = <<>> THEN <<>>
    ELSE SubSeq(frames[1], 5, 8) \o FrameData(Tail(frames))

\* the bytes that went to the device: the file written for the sysfs
\* upload, the data of the frames sent over SPI
UploadedBytes == IF upInterface = "sysfs" THEN upFile ELSE FrameData(upFrames)

\* C10: given an otherwise correct switch image whose first 8 bytes are not
\* the marker, the data upload_switch_config uploads (over sysfs or SPI)
\* starts with the marker, carries device id 0xB700030E at offset 8, ends
\* with the CRC32 of all bytes before the trailer, and passes
\* verify_switch_config.
UploadRepairsMarker ==
    (upDone /\ upInterface \in {"sysfs", "spi"} /\ CorrectButMarker(imSwitch)) =>
        /\ StartsWith(UploadedBytes, IMAGE_VALID_MARKER)
        /\ SubSeq(UploadedBytes, 9, 12) = <<14, 3, 0, 183>>
        /\ SubSeq(UploadedBytes, Len(UploadedBytes) - 3, Len(UploadedBytes))
              = ToLittle(Crc32(SubSeq(UploadedBytes, 1, Len(UploadedBytes) - 4)))
        /\ VerifySwitch(UploadedBytes)

\* data[:len(prefix)] == prefix
IsPrefix(prefix, data) ==
    /\ Len(prefix) <= Len(data)
    /\ SubSeq(data, 1, Len(prefix)) = prefix

\* the bytes an upload put on the uploader's transport: the file in
\* /lib/firmware (sysfs), the data of the SPI frames, the writes to the
\* serial port
Transported(file, frames) ==
    IF upInterface = "sysfs" THEN file
    ELSE IF upInterface = "spi" THEN FrameData(frames)
    ELSE upSerial

\* C11: on each interface the uploader accepts (sysfs, spi, serial), when
\* upload_switch_config or upload_uc_firmware has returned normally for an
\* existing image file, every byte of the image has been written to that
\* interface's transport.
UploadWritesImage ==
    /\ upDone => IsPrefix(upData, Transported(upFile, upFrames))
    /\ ucDone => IsPrefix(imUc, Transported(ucFile, ucFrames))

(***************************************************************************)
(* Properties of the image builders, checked under SpecGen.                *)
(***************************************************************************)
RECURSIVE UcEntriesLen(_)
\* the bytes the entries of a stream list take in the microcontroller image
UcEntriesLen(runs) ==
    IF runs = <<>> THEN 0
    ELSE (runs[1].times * Len(UcStreamData(runs[1].arg))) + UcEntriesLen(Tail(runs))

\* the entries end before the trailer of a 320K image: after the marker,
\* the 64-byte header and the 8-byte FRER header
UcEntriesFit(runs) == 8 + 64 + 8 + UcEntriesLen(runs) <= (320 * 1024) - 4

\* C12: build_switch_config returns exactly 640*1024 bytes for every list
\* of streams, of any count, and build_uc_firmware returns exactly 320*1024
\* bytes for every stream list whose entries fit before the trailer.
CorrectImageSizes ==
    (gTool = "correct") =>
        /\ (gSwitch # <<>>) => (BLen(gSwitch) = 640 * 1024)
        /\ (gUc # <<>> /\ UcEntriesFit(gStreams)) => (BLen(gUc) = 320 * 1024)

\* both images built from more streams than the CB table (128 entries) and
\* the DPI table (32 entries) hold
CorrectBeyondCapacity ==
    /\ gTool = "correct"
    /\ gSwitch # <<>>
    /\ gUc # <<>>
    /\ UcEntriesFit(gStreams)
    /\ TotalTimes(gStreams) > 64

\* C13: the switch image generate_switch_binary of generate_all_binaries
\* returns has length exactly SWITCH_BINARY_SIZE (655360 bytes), trailer
\* included, whatever the number of streams.
AllImageSize ==
    (gTool = "all" /\ gSwitch # <<>>) => (BLen(gSwitch) = SWITCH_BINARY_SIZE)

\* bit p of a port mask
MaskBit(mask, p) == (mask \div (2 ^ p)) % 2

\* the port-mask field of the k-th replication entry of the image (entries
\* of 7 bytes from offset 0x080000 on, the mask at offset 2 of the entry)
AllMaskField(image, k) ==
    LET field == BSlice(image, 524288 + (7 * (k - 1)) + 2,
                        524288 + (7 * (k - 1)) + 4)
    IN  field[1] + (256 * field[2])

\* C16: in generate_switch_binary of generate_all_binaries, for every
\* stream whose dst_ports are ports in 0..10 (in any order, with or without
\* repeats), the port-mask field of its replication entry has bit p set if
\* and only if p occurs in dst_ports.
AllPortMaskBits ==
    (gTool = "all" /\ gSwitch # <<>>) =>
        \A k \in 1..Len(gStreams) : \A p \in 0..15 :
            (MaskBit(AllMaskField(gSwitch, k), p) = 1)
                <=> (\E i \in 1..Len(gStreams[k].arg.dst_ports) :
                        gStreams[k].arg.dst_ports[i] = p)

\* the last 4 bytes of the image are struct.pack('<I', crc) of the CRC32 of
\* all bytes before them
TrailerIsCrc(image) ==
    /\ BLen(image) >= 4
    /\ BSlice(image, BLen(image) - 4, BLen(image))
          = ToLittle(BCrc32(BTake(image, BLen(image) - 4)))

\* the stream of the FRER scenario: id 1, ingress port 2, egress ports 3
\* and 4, VLAN 100, priority 7
ScenarioStream == FRERStream(1, 2, <<3, 4>>, 100, 7, 16)

\* C17: in SJA1110SwitchConfig.generate_switch_binary the first
\* sequence-generation (replication) entry starts exactly at byte offset
\* CB_SEQ_GEN_TABLE (0x080000) of the image; for the single stream {id 1,
\* ingress 2, egress [3, 4], vlan 100, priority 7} the entry at that offset
\* carries stream handle 1 and port mask 0b11000, and the trailer is the
\* CRC32 of the bytes before it.
RealFirstEntryAtTable ==
    (gTool = "real" /\ gSwitch # <<>>) =>
        /\ (gStreams.cb_seq_gen_entries # <<>>) =>
               BSlice(gSwitch, CB_SEQ_GEN_TABLE, CB_SEQ_GEN_TABLE + 7)
                   = SeqGenBytes(gStreams.cb_seq_gen_entries[1].arg)
        /\ (gStreams.streams = <<[arg |-> ScenarioStream, times |-> 1]>>) =>
               /\ BSlice(gSwitch, CB_SEQ_GEN_TABLE, CB_SEQ_GEN_TABLE + 4)
                     = <<1, 0, 24, 0>>
               /\ TrailerIsCrc(gSwitch)

\* the image of the FRER scenario has been generated
RealScenarioBuilt ==
    /\ gTool = "real"
    /\ gSwitch # <<>>
    /\ gStreams.streams = <<[arg |-> ScenarioStream, times |-> 1]>>

\* C18: in SJA1110SwitchConfig.generate_switch_binary, when the entries of
\* a table exceed the space reserved before the next table's offset the
\* build fails with an error instead of producing an image, so that in
\* every image produced the recovery table starts exactly at
\* CB_IND_REC_TABLE and the DPI table exactly at DPI_TABLE.
RealTablesAtOffsets ==
    (gTool = "real" /\ gSwitch # <<>>) =>
        /\ (gStreams.cb_ind_rec_entries # <<>>) =>
               BSlice(gSwitch, CB_IND_REC_TABLE, CB_IND_REC_TABLE + 10)
                   = IndRecBytes(gStreams.cb_ind_rec_entries[1].arg)
        /\ (gStreams.dpi_entries # <<>>) =>
               BSlice(gSwitch, DPI_TABLE, DPI_TABLE + 10)
                   = RealDpiBytes(gStreams.dpi_entries[1])

\* C19: encoding by GoldBoxFRERConfig is deterministic: two builds of
\* generate_switch_binary over equal scenario lists yield byte-identical
\* images, also when the two builds run in different program executions.
GoldBoxDeterministic ==
    (gTool = "goldbox" /\ gPrev # <<>> /\ gSwitch # <<>>) => (gSwitch = gPrev)

\* a scenario with an input port, a replication port or a specified
\* elimination port that is no SJA1110 port 1..10
BadPort(scenario) ==
    \/ scenario.input_port \notin 1..10
    \/ \E i \in 1..Len(scenario.replicate_to) : scenario.replicate_to[i] \notin 1..10
    \/ (scenario.eliminate_at # <<>> /\ scenario.eliminate_at[1] \notin 1..10)

\* C20: add_test_scenario rejects with an error every scenario whose input
\* port, one of whose replicate_to ports, or whose specified eliminate_at
\* port is not a valid SJA1110 port in 1..10 (port 0 and ports 20..22
\* included), and leaves the scenario list unchanged when it does.
GoldBoxRejectsBadPorts ==
    [][(gTool = "goldbox" /\ gPlan # <<>> /\ gPlan' = Tail(gPlan)
            /\ BadPort(gPlan[1].arg))
          => (gError' = "ValueError" /\ gStreams' = gStreams)]_vars

\* C15: the UC firmware image returned by build_microcontroller_firmware of
\* sja1110_dual_firmware ends with the 4-byte little-endian CRC32 of all
\* preceding bytes, and so does the switch image of build_switch_firmware.
DualTrailersAreCrc ==
    gTool = "dual" =>
        /\ (gUc # <<>> => TrailerIsCrc(gUc))
        /\ (gSwitch # <<>> => TrailerIsCrc(gSwitch))

\* the tools whose images carry a CRC32 trailer
CrcTools == {"correct", "real", "goldbox"}

\* C14: in every image produced by build_uc_firmware and build_switch_config
\* of CorrectSJA1110Firmware and by generate_switch_binary of
\* SJA1110SwitchConfig and of GoldBoxFRERConfig the last 4 bytes are the
\* little-endian CRC32 of all preceding bytes, so that fix_crc on the saved
\* image changes nothing.
BuiltTrailersAreCrc ==
    gTool \in CrcTools =>
        /\ (gUc # <<>> => (TrailerIsCrc(gUc) /\ BFixCrc(gUc) = gUc))
        /\ (gSwitch # <<>> => (TrailerIsCrc(gSwitch) /\ BFixCrc(gSwitch) = gSwitch))

\* C14 witness: a CorrectSJA1110Firmware with a stream added has built both
\* images, and fix_crc leaves the saved switch image as it is
BuiltBothWithStreams ==
    /\ gTool = "correct"
    /\ gStreams # <<>>
    /\ gUc # <<>>
    /\ gSwitch # <<>>
    /\ BFixCrc(gSwitch) = gSwitch

\* the stream handles of a table kept as runs occur once each
HandlesOnce(table) ==
    /\ \A k \in 1..Len(table) : table[k].times = 1
    /\ \A j, k \in 1..Len(table) :
          j # k => table[j].arg.stream_handle # table[k].arg.stream_handle

\* C21: in an image built by SJA1110SwitchConfig after any sequence of
\* add_frer_stream and create_redundant_path calls, the sequence-generation
\* and individual-recovery tables hold at most one entry per stream handle,
\* and the DPI table holds exactly one entry per added stream.
RealHandlesUnique ==
    (gTool = "real" /\ gSwitch # <<>>) =>
        /\ HandlesOnce(gStreams.cb_seq_gen_entries)
        /\ HandlesOnce(gStreams.cb_ind_rec_entries)
        /\ Len(gStreams.dpi_entries) = TotalTimes(gStreams.streams)

\* image[offset:offset + len(data)] = data
HoldsAt(image, offset, data) == BSlice(image, offset, offset + Len(data)) = data

\* C27: in every image built by GoldBoxFRERConfig.generate_switch_binary
\* each section starts at its declared offset: the general parameters at
\* GENERAL_PARAMS, the CB entries at CB_CONFIG_BASE, the DPI entries at
\* DPI_CONFIG_BASE and the VLAN entries at VLAN_TABLE_BASE.
GoldBoxSectionsAtOffsets ==
    (gTool = "goldbox" /\ gSwitch # <<>>) =>
        /\ HoldsAt(gSwitch, GB_GENERAL_PARAMS, Le32(1) \o <<PFE_MAC0, 255>>)
        /\ gStreams # <<>> =>
              /\ HoldsAt(gSwitch, CB_CONFIG_BASE, GoldBoxCbConfig(gSeed, gStreams[1].arg))
              /\ HoldsAt(gSwitch, DPI_CONFIG_BASE, GoldBoxDpiConfig(gSeed, gStreams[1].arg))
              /\ HoldsAt(gSwitch, VLAN_TABLE_BASE, GoldBoxVlanEntry(gStreams[1].arg))

\* where l2_lookup begins in the switch image: after the 64-byte header
\* and device_config
DualL2LookupAt == 64 + DeviceConfigSize

\* C28: in build_switch_firmware of sja1110_dual_firmware, for streams with
\* distinct ids, no CB entry is written inside the DPI table region that
\* starts 0x4000 bytes after the CB table, and no CB entry is overwritten:
\* every CB entry that was written is in the image at its slot.
DualCbEntriesIntact ==
    (gTool = "dual" /\ gSwitch # <<>>) =>
        \A k \in 1..Len(gStreams) :
            LET stream == gStreams[k].arg
                rps == ReplicationPoints(stream)
            IN  \A i \in 1..Len(rps) :
                    LET offset == DualCbTableOffset + (rps[i].rp_id * 16)
                    IN  offset + 16 <= L2LookupSize =>
                            /\ offset + 16 <= DualDpiTableOffset
                            /\ HoldsAt(gSwitch, DualL2LookupAt + offset,
                                       DualCbEntry(stream, rps[i]))

\* ceil(n / d)
CeilDiv(n, d) == (n + d - 1) \div d

\* the frames and progress reports the claim describes for _upload_via_spi
\* of data from base_addr: one write per 4 bytes in increasing address
\* order, each the big-endian word data[i:i+4] padded with zeros, and
\* ceil(n/256) reports that grow and reach 100% with the last chunk only
CoversOnce(frames, progress, base_addr, data) ==
    /\ Len(frames) = CeilDiv(Len(data), 4)
    /\ \A k \in 1..Len(frames) :
          LET i == 4 * (k - 1)
              address == base_addr + i
              word == Slice(data, i, i + 4)
          IN  frames[k] = <<128, (address \div 65536) % 256,
                            (address \div 256) % 256, address % 256>>
                              \o word \o Zeros(4 - Len(word))
    /\ Len(progress) = CeilDiv(Len(data), SpiChunkSize)
    /\ \A j \in 1..Len(progress) :
          /\ progress[j][2] = Len(progress)
          /\ (j > 1 => progress[j][1] >= progress[j - 1][1])
          /\ (progress[j][1] = progress[j][2]) = (j = Len(progress))

\* C24: _upload_via_spi covers the image exactly once and in order, in
\* ceil(n/256) chunks, with non-decreasing progress that is 100% after the
\* last chunk (for both callers: the switch configuration from
\* CONFIG_START_ADDR and the microcontroller firmware from address 0).
UploadViaSpiCoversOnce ==
    /\ (upDone /\ upInterface = "spi") =>
           CoversOnce(upFrames, upProgress, CONFIG_START_ADDR, WithMarker(imSwitch))
    /\ (ucDone /\ upInterface = "spi") =>
           CoversOnce(ucFrames, ucProgress, 0, imUc)

\* C24 witness: the 514-byte image has been uploaded over SPI: three
\* chunks, 129 writes, the last carrying two data bytes and two zeros
UploadedLongImage ==
    /\ ucDone
    /\ upInterface = "spi"
    /\ Len(imUc) = 514
    /\ Len(ucProgress) = 3
    /\ Len(ucFrames) = 129
    /\ SubSeq(ucFrames[129], 7, 8) = <<0, 0>>

\* C25: _spi_write(address, value, length) transmits 4 + length bytes:
\* command 0x80, the address as 3 big-endian bytes, the value as length
\* big-endian bytes; _spi_read transmits command 0x00 with the same address
\* framing and decodes the length bytes after the 4-byte header big-endian,
\* so reading back the data bytes of a write frame returns the value.
SpiFramingRoundTrip ==
    /\ spiTx # <<>> =>
          /\ Len(spiTx) = 4 + spiLength
          /\ spiTx[1] = 128
          /\ (spiTx[2] * 65536) + (spiTx[3] * 256) + spiTx[4] = spiAddress
    /\ spiGot # <<>> =>
          /\ spiReadTx = <<0, spiTx[2], spiTx[3], spiTx[4]>> \o Zeros(spiLength)
          /\ spiGot = spiValue

\* C25 witness: 0x01020304 was written to register 0x123456 as
\* 80 12 34 56 01 02 03 04 and read back
SpiReadBackWord ==
    /\ spiTx = <<128, 18, 52, 86, 5, 6, 7, 8>>
    /\ spiValue = <<0, 0, 1286, 1800>>
    /\ spiGot = <<0, 0, 1286, 1800>>


(***************************************************************************)
(* Properties of the SJA1110FRER tables and of the register path of        *)
(* configure_frer, checked under SpecFrer.                                 *)
(***************************************************************************)
\* bit number `port` of a port mask is set
MaskHas(port_mask, port) == (port_mask \div (2 ^ port)) % 2 = 1

\* C22: configure_replication refuses with a ValueError a port list whose
\* mask does not fit the one-byte port-mask field of the encoded entry, so
\* every stored mask fits the field and generate_configuration, called on
\* tables filled by successful calls, returns instead of raising.
FrerMasksFitField ==
    /\ (/\ frLast.op = "configure_replication"
        /\ frLast.args[1] \in Keys(frStreams)
        /\ \E i \in 1..Len(frLast.args[2]) : frLast.args[2][i] > 7)
          => (frError = "ValueError")
    /\ \A i \in 1..Len(frSeqGen) : Packs(frSeqGen[i][2].port_mask, 1)
    /\ (frLast.op = "generate_configuration") => (frError = "none")

\* C26: after create_redundant_path(1, [0, 1, 3], [0, 2, 3], 3) on a defined
\* stream the port mask of its sequence-generation entry has the bits of
\* ports 1 and 2, and its recovery entry is on port 3.
RedundantPathReplicates ==
    (/\ frLast.op = "create_redundant_path"
     /\ frError = "none"
     /\ frLast.args = <<1, <<0, 1, 3>>, <<0, 2, 3>>, 3>>)
        => /\ MaskHas(Lookup(frSeqGen, 1).port_mask, 1)
           /\ MaskHas(Lookup(frSeqGen, 1).port_mask, 2)
           /\ Lookup(frSeqRec, 1).port = 3

\* the data bytes the register writes carry, in order
WrittenData(writes) ==
    [i \in 1..Len(writes) |-> [times |-> writes[i].count, block |-> SubSeq(writes[i].tx, 5, 8)]]

\* config_data[i:i+4], a short last chunk filled up with zero bytes
ChunkAt(config_data, i) ==
    LET chunk == BSlice(config_data, i, i + 4)
    IN  chunk \o Zeros(4 - Len(chunk))

\* C29: the register writes of configure_frer reproduce the generated
\* configuration: they go to 0x060000, 0x060004, ... in order, the 4 data
\* bytes written at 0x060000 + i are config_data[i:i+4], a short last chunk
\* filled up with zero bytes after the data, and all the data bytes
\* together are config_data followed by that padding.
FrerWritesReproduceConfig ==
    (frWords # <<>>) =>
        LET size == 4 * ((BLen(frConfig) + 3) \div 4)
        IN  /\ frWords[1].address = FrerRegisterBase
            /\ \A k \in 1..(Len(frWords) - 1) :
                  frWords[k + 1].address = frWords[k].address + (4 * frWords[k].count)
            /\ \A k \in 1..Len(frWords) :
                  LET first == frWords[k].address - FrerRegisterBase
                      last == first + (4 * (frWords[k].count - 1))
                  IN  /\ SubSeq(frWords[k].tx, 1, 4) = <<128>> \o AddressBytes(frWords[k].address)
                      /\ SubSeq(frWords[k].tx, 5, 8) = ChunkAt(frConfig, first)
                      /\ SubSeq(frWords[k].tx, 5, 8) = ChunkAt(frConfig, last)
            /\ BLen(WrittenData(frWords)) = size
            /\ BCrc32(WrittenData(frWords)) = BCrc32(BPadTo(frConfig, size, 0))

\* the tables are sound: handles of the sequence tables are defined streams,
\* handles are below MAX_STREAMS, masks have bits 0..10 only and history
\* lengths are at most MAX_SEQUENCE_HISTORY
FrerTablesSound ==
    /\ Keys(frSeqGen) \subseteq Keys(frStreams)
    /\ Keys(frSeqRec) \subseteq Keys(frStreams)
    /\ \A h \in Keys(frStreams) \cup Keys(frSeqGen) \cup Keys(frSeqRec) : h < 1024
    /\ \A i \in 1..Len(frStreams) : frStreams[i][2].stream_handle = frStreams[i][1]
    /\ \A i \in 1..Len(frSeqGen) :
          /\ frSeqGen[i][2].stream_handle = frSeqGen[i][1]
          /\ frSeqGen[i][2].port_mask \in 0..2047
    /\ \A i \in 1..Len(frSeqRec) :
          /\ frSeqRec[i][2].stream_handle = frSeqRec[i][1]
          /\ frSeqRec[i][2].history_length <= 32

\* C30: under any sequence of add_stream, configure_replication,
\* configure_elimination and create_redundant_path calls the tables stay
\* sound, and a call that raises ValueError leaves the three tables as they
\* were.
FrerTablesStaySound ==
    /\ []FrerTablesSound
    /\ [][(frError' = "ValueError") => UNCHANGED <<frStreams, frSeqGen, frSeqRec>>]_vars

\* C30 witness: configure_elimination(1, 3, history_length=33) was refused
\* on tables that hold a stream with its replication and its elimination.
FrerRefusedLongHistory ==
    /\ frLast = [op |-> "configure_elimination", args |-> <<1, 3, 33>>]
    /\ frError = "ValueError"
    /\ 1 \in Keys(frSeqGen)
    /\ 1 \in Keys(frSeqRec)
    /\ FrerTablesSound

====
